---- MODULE Spec2Model ----
(***************************************************************************)
(* Model of the probe orchestration of networking-debug-container:         *)
(*   - multi_nic_ib_write_bw.py  (throughput mode, role-pair protocol)     *)
(*   - pingmesh.py               (mesh mode, symmetric protocol)           *)
(* The remote executor (kubectl exec) and the probe tools are the          *)
(* environment: every remote call returns one of the results the wrapper   *)
(* run_kubectl_command can produce.                                        *)
(***************************************************************************)
EXTENDS Integers, Sequences, FiniteSets, TLC

VARIABLES
    pc,            \* position of the throughput main thread
    config,        \* the configuration dict (file content, then load_config's result)
    json_output,   \* args.json_output (console is None iff TRUE)
    pairs,         \* list[TestPair]
    loop_i,        \* index of the sequential for-loop the main thread is in
    all_success,   \* discover_endpoints' flag
    server_procs,  \* run_multi_nic_test's server_procs list
    client_futures,\* pair position -> state/result of the submitted run_ib_client
    results,       \* run_multi_nic_test's results list
    report,        \* what has been written as the final report
    exit_code,     \* process exit status once the process has ended
    mpc,           \* position of the pingmesh main thread
    mesh_config,   \* pingmesh's configuration dict
    entity_interface_ips, \* entity -> interfaces with an IP (collect_interface_ips)
    ping_tasks,    \* run_pingmesh_tests' ping_tasks list
    futures,       \* per ping task: state/result of the submitted run_ping_test
    mesh_results,  \* run_pingmesh_tests' results dict: entity pair -> NodePairResult
    mesh_exit_code,\* pingmesh's exit status once the process has ended
    mesh_report,   \* what pingmesh has printed as its matrix and summary
    call_args,     \* one probe call on its own: the function and its inputs
    call_ret       \* what that call produced

tvars == <<pc, config, json_output, pairs, loop_i, all_success, server_procs,
           client_futures, results, report, exit_code>>

mvars == <<mpc, mesh_config, entity_interface_ips, ping_tasks, futures,
           mesh_results, mesh_exit_code, mesh_report>>

cvars == <<call_args, call_ret>>

vars == <<tvars, mvars, cvars>>

----------------------------------------------------------------------------
(* Bounds of the model *)

\* longest test_pairs list of a configuration
MaxPairs == 2

\* longest pair list given to assign_ports on its own
MaxPortPairs == 4

\* longest entity list of a mesh configuration
MaxEntities == 3

\* most sub-probes of a mesh run
MaxTasks == 3

\* largest retry budget given to run_ping_test on its own
MaxRetries == 2

(* Program constants *)

BASE_PORT == 18515

\* load_config's default duration
DEFAULT_DURATION == 10

Pods == {"pod1", "pod2"}

PortPods == {"pod1", "pod2", "pod3"}

None == "None"

Range(s) == {s[i] : i \in DOMAIN s}

----------------------------------------------------------------------------
(* TestPair / TestResult *)

TestPair(dst_pod) ==
    [dst_pod |-> dst_pod, src_iface |-> "", src_ip |-> "",
     dst_iface |-> "", dst_ip |-> "", port |-> BASE_PORT]

\* every test_pairs list a bounded configuration can hold
PairLists(pods, n) ==
    UNION {[1..k -> {TestPair(p) : p \in pods}] : k \in 1..n}

----------------------------------------------------------------------------
(* assign_ports: one pass over the list with the dict dst_pod_port_map *)

RECURSIVE AssignFrom(_, _, _)
AssignFrom(ps, i, dst_pod_port_map) ==
    IF i > Len(ps) THEN ps
    ELSE LET pod == ps[i].dst_pod
             m   == IF pod \notin DOMAIN dst_pod_port_map
                    THEN [q \in DOMAIN dst_pod_port_map \cup {pod} |->
                            IF q = pod THEN BASE_PORT ELSE dst_pod_port_map[q]]
                    ELSE [dst_pod_port_map EXCEPT ![pod] = @ + 1]
         IN AssignFrom([ps EXCEPT ![i].port = m[pod]], i + 1, m)

EmptyMap == [q \in {} |-> 0]

\* a plausible slip: the port is taken before the increment is applied
assign_ports_stale(ps) ==
    [i \in DOMAIN ps |->
        [ps[i] EXCEPT !.port =
            LET n == Cardinality({j \in 1..(i-1) : ps[j].dst_pod = ps[i].dst_pod})
            IN IF n = 0 THEN BASE_PORT ELSE BASE_PORT + n - 1]]

\* a plausible slip: one counter for all destination pods
assign_ports_global(ps) == [i \in DOMAIN ps |-> [ps[i] EXCEPT !.port = BASE_PORT + i - 1]]

assign_ports(ps) == AssignFrom(ps, 1, EmptyMap)

----------------------------------------------------------------------------
(* Replies of the remote executor: run_kubectl_command returns (success, output) *)

Reply(ok, out) == [ok |-> ok, out |-> out]

TIMED_OUT == "Command timed out"

\* a plausible slip: the timeout handler returns like a completed command
run_kubectl_command_timeout_ok(kind, out) ==
    CASE kind = "exit0"   -> Reply(TRUE, out)
      [] kind = "nonzero" -> Reply(FALSE, out)
      [] kind = "timeout" -> Reply(TRUE, out)
      [] OTHER            -> Reply(FALSE, "exception text")

\* lines 84-91: exit 0 with stdout; non-zero exit with stderr-or-stdout (may be
\* empty); timeout; any other exception as its text
run_kubectl_command(kind, out) ==
    CASE kind = "exit0"   -> Reply(TRUE, out)
      [] kind = "nonzero" -> Reply(FALSE, out)
      [] kind = "timeout" -> Reply(FALSE, TIMED_OUT)
      [] OTHER            -> Reply(FALSE, "exception text")

\* replies to the interface scan of find_interface_for_hca
LookupReplies ==
    {run_kubectl_command("exit0", "eth0"), run_kubectl_command("exit0", ""),
     run_kubectl_command("nonzero", ""), run_kubectl_command("timeout", "")}

\* replies to "ip -4 addr show" of get_interface_ip
IpReplies ==
    {run_kubectl_command("exit0", "10.0.0.1"), run_kubectl_command("exit0", ""),
     run_kubectl_command("nonzero", ""), run_kubectl_command("timeout", "")}

\* replies to the ib_write_bw client command
RunReplies ==
    {run_kubectl_command("exit0", "stdout"), run_kubectl_command("nonzero", "stderr"),
     run_kubectl_command("timeout", "")}

\* replies to "cat <json_file>" : "J" stands for a well-formed result document
CatReplies ==
    {run_kubectl_command("exit0", "J"), run_kubectl_command("exit0", ""),
     run_kubectl_command("nonzero", "No such file")}

\* find_interface_for_hca / get_interface_ip: the output, or None
lookup_some(reply) == IF reply.ok /\ reply.out # "" THEN reply.out ELSE None

find_interface_for_hca(reply) == lookup_some(reply)

get_interface_ip(reply) == lookup_some(reply)

----------------------------------------------------------------------------
(* Configuration: a dict from keys to values; Opt values are <<>> (absent) or <<v>> *)

ConfigDict(duration, num_iters, tos) ==
    [k \in (IF duration # <<>> THEN {"duration"} ELSE {})
           \cup (IF num_iters # <<>> THEN {"num_iters"} ELSE {})
           \cup (IF tos # <<>> THEN {"tos"} ELSE {}) |->
        CASE k = "duration"  -> duration[1]
          [] k = "num_iters" -> num_iters[1]
          [] OTHER           -> tos[1]]

ConfigFiles ==
    {ConfigDict(d, n, t) : d \in {<<>>, <<1>>}, n \in {<<>>, <<0>>, <<1>>},
                           t \in {<<>>, <<41>>}}

\* a plausible slip: the exclusivity test of duration and num_iters is left out
load_config_rejects_nonexclusive(cfg, test_pairs) == test_pairs = <<>>

\* load_config raises ValueError (lines 650-658)
load_config_rejects(cfg, test_pairs) ==
    \/ test_pairs = <<>>
    \/ "duration" \in DOMAIN cfg /\ "num_iters" \in DOMAIN cfg

\* load_config's returned dict (lines 660-671)
load_config(cfg) ==
    IF "duration" \notin DOMAIN cfg /\ "num_iters" \notin DOMAIN cfg
    THEN [k \in DOMAIN cfg \cup {"duration"} |->
            IF k = "duration" THEN DEFAULT_DURATION ELSE cfg[k]]
    ELSE cfg

\* main: num_iters = config.get('num_iters'); "num_iters is not None"
num_iters_given(cfg) == "num_iters" \in DOMAIN cfg

tos_given(cfg) == "tos" \in DOMAIN cfg

----------------------------------------------------------------------------
(* Throughput mode: initial state *)
\* no probe call is being examined on its own
CallIdle == call_args = <<>> /\ call_ret = <<>>

\* the pingmesh program is not running
MeshIdle ==
    /\ mpc = "idle"
    /\ mesh_config = <<>>
    /\ entity_interface_ips = <<>>
    /\ ping_tasks = <<>>
    /\ futures = <<>>
    /\ mesh_results = <<>>
    /\ mesh_exit_code = <<>>
    /\ mesh_report = <<>>

Init ==
    /\ MeshIdle
    /\ CallIdle
    /\ pc = "load_config"
    /\ config \in ConfigFiles
    /\ json_output \in BOOLEAN
    /\ pairs \in PairLists(Pods, MaxPairs) \cup {<<>>}
    /\ loop_i = 0
    /\ all_success = TRUE
    /\ server_procs = <<>>
    /\ client_futures = <<>>
    /\ results = <<>>
    /\ report = <<>>
    /\ exit_code = <<>>

Exit(code) ==
    /\ pc' = "exited"
    /\ exit_code' = <<code>>

\* main, lines 724-744
LoadConfig ==
    /\ pc = "load_config"
    /\ IF load_config_rejects(config, pairs)
       THEN Exit(1) /\ UNCHANGED config
       ELSE /\ config' = load_config(config)
            /\ pc' = "discover"
            /\ UNCHANGED exit_code
    /\ UNCHANGED <<json_output, pairs, loop_i, all_success, server_procs,
                   client_futures, results, report>>

----------------------------------------------------------------------------
(* discover_endpoints *)

\* lines 315-318: the flag, then assign_ports before any lookup
DiscoverStart ==
    /\ pc = "discover"
    /\ all_success' = TRUE
    /\ pairs' = assign_ports(pairs)
    /\ loop_i' = 1
    /\ pc' = "discover_loop"
    /\ UNCHANGED <<config, json_output, server_procs, client_futures, results,
                   report, exit_code>>

\* one iteration of the loop of lines 320-375 on `pair`, given the replies to its
\* lookups: <<the pair afterwards, whether the iteration reached its end>>.
\* (lines 367-369 also store the NUMA nodes, which only feed the numactl
\* prefix of the commands and are not part of this model's TestPair)
discover_pair(pair, tos, src_iface_r, src_ip_r, iface_r, ip_r) ==
    LET src_iface == find_interface_for_hca(src_iface_r)
        src_ip    == get_interface_ip(src_ip_r)
        iface     == find_interface_for_hca(iface_r)
        ip        == get_interface_ip(ip_r)
        p1 == IF tos THEN [pair EXCEPT !.src_iface = src_iface] ELSE pair
        p2 == IF tos THEN [p1 EXCEPT !.src_ip = src_ip] ELSE p1
        p3 == [p2 EXCEPT !.dst_iface = iface]
        p4 == [p3 EXCEPT !.dst_ip = ip]
    IN  IF tos /\ src_iface = None THEN <<pair, FALSE>>
        ELSE IF tos /\ src_ip = None THEN <<p1, FALSE>>
        ELSE IF iface = None THEN <<p2, FALSE>>
        ELSE IF ip = None THEN <<p3, FALSE>>
        ELSE <<p4, TRUE>>

\* a plausible slip: the loop is left at the first pair that fails to resolve
DiscoverPair_stops ==
    /\ pc = "discover_loop"
    /\ loop_i <= Len(pairs)
    /\ \E src_iface_r \in LookupReplies, src_ip_r \in IpReplies,
          iface_r \in LookupReplies, ip_r \in IpReplies :
          LET r == discover_pair(pairs[loop_i], tos_given(config),
                                 src_iface_r, src_ip_r, iface_r, ip_r)
          IN /\ pairs' = [pairs EXCEPT ![loop_i] = r[1]]
             /\ all_success' = (all_success /\ r[2])
             /\ loop_i' = IF r[2] THEN loop_i + 1 ELSE Len(pairs) + 1
    /\ UNCHANGED <<pc, config, json_output, server_procs, client_futures, results,
                   report, exit_code>>

\* discover_endpoints, lines 320-375: one iteration of the loop
DiscoverPair ==
    /\ pc = "discover_loop"
    /\ loop_i <= Len(pairs)
    /\ \E src_iface_r \in LookupReplies, src_ip_r \in IpReplies,
          iface_r \in LookupReplies, ip_r \in IpReplies :
          LET r == discover_pair(pairs[loop_i], tos_given(config),
                                 src_iface_r, src_ip_r, iface_r, ip_r)
          IN /\ pairs' = [pairs EXCEPT ![loop_i] = r[1]]
             /\ all_success' = (all_success /\ r[2])
    /\ loop_i' = loop_i + 1
    /\ UNCHANGED <<pc, config, json_output, server_procs, client_futures, results,
                   report, exit_code>>

\* a plausible slip: main ignores discover_endpoints' return value
DiscoverDone_proceeds ==
    /\ pc = "discover_loop"
    /\ loop_i > Len(pairs)
    /\ pc' = "start_servers"
    /\ loop_i' = 1
    /\ UNCHANGED <<config, json_output, pairs, all_success, server_procs,
                   client_futures, results, report, exit_code>>

\* discover_endpoints returns all_success; main, lines 784-795
DiscoverDone ==
    /\ pc = "discover_loop"
    /\ loop_i > Len(pairs)
    /\ IF ~all_success
       THEN Exit(1) /\ UNCHANGED loop_i
       ELSE /\ pc' = "start_servers"
            /\ loop_i' = 1
            /\ UNCHANGED exit_code
    /\ UNCHANGED <<config, json_output, pairs, all_success, server_procs,
                   client_futures, results, report>>

----------------------------------------------------------------------------
(* run_multi_nic_test *)

TestResult(pair_idx, pair) ==
    [pair_idx |-> pair_idx, dst_pod |-> pair.dst_pod, bw_avg_gbps |-> 0,
     bw_peak_gbps |-> <<>>, success |-> FALSE, error_msg |-> ""]

\* lines 253-267, given the replies to the client command and to the cat of its
\* result file: (success, json_output, error_msg)
run_ib_client(run_r, cat_r) ==
    IF ~run_r.ok THEN <<FALSE, "", run_r.out>>
    ELSE IF cat_r.ok THEN <<TRUE, cat_r.out, "">>
    ELSE <<FALSE, "", "Failed to retrieve JSON results: " \o cat_r.out>>

\* lines 270-284; the document "J" reports BW_average 12 and BW_peak 15
parse_ib_json_result(json_str, include_peak) ==
    IF json_str = "J"
    THEN <<12, IF include_peak THEN <<15>> ELSE <<>>>>
    ELSE <<0, <<>>>>

\* a future of the executor: running, or done with a value or a raised exception
Running == [state |-> "running", raised |-> FALSE, ret |-> <<>>]

Done(raised, ret) == [state |-> "done", raised |-> raised, ret |-> ret]

\* a plausible slip: the port of a pair is allocated when its responder is started
StartServer_allocates ==
    /\ pc = "start_servers"
    /\ loop_i <= Len(pairs)
    /\ server_procs' = Append(server_procs,
                              IF pairs[loop_i].dst_ip = "" THEN None ELSE "running")
    /\ pairs' = [pairs EXCEPT ![loop_i].port = BASE_PORT + loop_i - 1]
    /\ loop_i' = loop_i + 1
    /\ UNCHANGED <<pc, config, json_output, all_success, client_futures,
                   results, report, exit_code>>

\* lines 405-419, one iteration
StartServer ==
    /\ pc = "start_servers"
    /\ loop_i <= Len(pairs)
    /\ server_procs' = Append(server_procs,
                              IF pairs[loop_i].dst_ip = "" THEN None ELSE "running")
    /\ loop_i' = loop_i + 1
    /\ UNCHANGED <<pc, config, json_output, pairs, all_success, client_futures,
                   results, report, exit_code>>

\* line 424: time.sleep(3)
Settle ==
    /\ pc = "start_servers"
    /\ loop_i > Len(pairs)
    /\ pc' = "submit"
    /\ UNCHANGED <<config, json_output, pairs, loop_i, all_success, server_procs,
                   client_futures, results, report, exit_code>>

\* a plausible slip: the skip test of the submit loop is left out
Submitted_all == DOMAIN pairs

\* lines 436-438: the pairs a client is submitted for
Submitted == {i \in DOMAIN pairs : ~(pairs[i].dst_ip = "" \/ server_procs[i] = None)}

\* a plausible slip: the clients are submitted right after the last server start,
\* without the sleep of line 424
SubmitClients_unsettled ==
    /\ pc = "start_servers"
    /\ loop_i > Len(pairs)
    /\ client_futures' = [i \in Submitted |-> Running]
    /\ pc' = "collect"
    /\ UNCHANGED <<config, json_output, pairs, loop_i, all_success, server_procs,
                   results, report, exit_code>>

\* lines 434-444: the pool has one worker per pair, so every submitted client runs
SubmitClients ==
    /\ pc = "submit"
    /\ client_futures' = [i \in Submitted |-> Running]
    /\ pc' = "collect"
    /\ UNCHANGED <<config, json_output, pairs, loop_i, all_success, server_procs,
                   results, report, exit_code>>

\* a worker thread ends run_ib_client: with its return value, or by raising
ClientFinish(i) ==
    /\ pc = "collect"
    /\ client_futures[i].state = "running"
    /\ \/ \E run_r \in RunReplies, cat_r \in CatReplies :
             client_futures' =
                 [client_futures EXCEPT ![i] = Done(FALSE, run_ib_client(run_r, cat_r))]
       \/ client_futures' = [client_futures EXCEPT ![i] = Done(TRUE, <<>>)]
    /\ UNCHANGED <<pc, config, json_output, pairs, loop_i, all_success, server_procs,
                   results, report, exit_code>>

\* lines 450-488: the TestResult made of a completed future
collect_result(idx, pair, fut, include_peak) ==
    LET result == TestResult(idx, pair)
    IN  IF fut.raised THEN [result EXCEPT !.error_msg = "exception"]
        ELSE LET success == fut.ret[1]
                 json_output_ == fut.ret[2]
                 error_msg == fut.ret[3]
                 bw == parse_ib_json_result(json_output_, include_peak)
             IN IF success /\ json_output_ # ""
                THEN [result EXCEPT !.bw_avg_gbps = bw[1], !.bw_peak_gbps = bw[2],
                                    !.success = TRUE]
                ELSE [result EXCEPT !.error_msg = error_msg]

\* a plausible slip: future.result() outside the try, so that an exception raised
\* by one client escapes run_multi_nic_test and main
Collect_unguarded(i) ==
    /\ pc = "collect"
    /\ client_futures[i].state = "done"
    /\ IF client_futures[i].raised
       THEN Exit(1) /\ UNCHANGED <<results, client_futures>>
       ELSE /\ results' = Append(results,
                                 collect_result(i - 1, pairs[i], client_futures[i],
                                                num_iters_given(config)))
            /\ client_futures' = [client_futures EXCEPT ![i].state = "collected"]
            /\ UNCHANGED <<pc, exit_code>>
    /\ UNCHANGED <<config, json_output, pairs, loop_i, all_success, server_procs,
                   report>>

\* lines 447-488, one iteration of the as_completed loop on a completed future
Collect(i) ==
    /\ pc = "collect"
    /\ client_futures[i].state = "done"
    /\ results' = Append(results,
                         collect_result(i - 1, pairs[i], client_futures[i],
                                        num_iters_given(config)))
    /\ client_futures' = [client_futures EXCEPT ![i].state = "collected"]
    /\ UNCHANGED <<pc, config, json_output, pairs, loop_i, all_success, server_procs,
                   report, exit_code>>

\* as_completed is exhausted and the executor's with-block is left
PoolExit ==
    /\ pc = "collect"
    /\ \A i \in DOMAIN client_futures : client_futures[i].state = "collected"
    /\ pc' = "reap"
    /\ loop_i' = 1
    /\ UNCHANGED <<config, json_output, pairs, all_success, server_procs,
                   client_futures, results, report, exit_code>>

\* lines 491-503, one iteration: wait(timeout=10) returns, or expires and the
\* process is killed (the rm -f of the server file changes no state here)
\* a plausible slip: the TimeoutExpired handler does not kill
reap_wait_only(proc, exited_in_time) ==
    IF proc # None /\ exited_in_time THEN "exited" ELSE proc

reap(proc, exited_in_time) ==
    IF proc = None THEN proc
    ELSE IF exited_in_time THEN "exited" ELSE "killed"

\* a plausible slip: proc.wait() without a timeout, which does not return for a
\* responder whose initiator never completed a transfer with it
ReapServer_no_timeout ==
    /\ pc = "reap"
    /\ loop_i <= Len(server_procs)
    /\ server_procs[loop_i] # None =>
          \E k \in DOMAIN results : results[k].pair_idx = loop_i - 1 /\ results[k].success
    /\ server_procs' = [server_procs EXCEPT ![loop_i] = reap(server_procs[loop_i], TRUE)]
    /\ loop_i' = loop_i + 1
    /\ UNCHANGED <<pc, config, json_output, pairs, all_success, client_futures,
                   results, report, exit_code>>

\* lines 491-503, one iteration of the reaping loop
ReapServer ==
    /\ pc = "reap"
    /\ loop_i <= Len(server_procs)
    /\ \E exited_in_time \in BOOLEAN :
          server_procs' = [server_procs EXCEPT
                              ![loop_i] = reap(server_procs[loop_i], exited_in_time)]
    /\ loop_i' = loop_i + 1
    /\ UNCHANGED <<pc, config, json_output, pairs, all_success, client_futures,
                   results, report, exit_code>>

\* list.sort(key=pair_idx): a stable sort, here by insertion
RECURSIVE InsertSorted(_, _)
InsertSorted(sorted, r) ==
    IF sorted = <<>> THEN <<r>>
    ELSE IF sorted[Len(sorted)].pair_idx <= r.pair_idx THEN Append(sorted, r)
    ELSE Append(InsertSorted(SubSeq(sorted, 1, Len(sorted) - 1), r),
                sorted[Len(sorted)])

RECURSIVE SortFrom(_, _, _)
SortFrom(rs, i, acc) ==
    IF i > Len(rs) THEN acc ELSE SortFrom(rs, i + 1, InsertSorted(acc, rs[i]))

\* a plausible slip: the results are returned in completion order
sort_results_missing(rs) == rs

sort_results(rs) == SortFrom(rs, 1, <<>>)

\* lines 505-508
SortAndReturn ==
    /\ pc = "reap"
    /\ loop_i > Len(server_procs)
    /\ results' = sort_results(results)
    /\ pc' = "report"
    /\ UNCHANGED <<config, json_output, pairs, loop_i, all_success, server_procs,
                   client_futures, report, exit_code>>

----------------------------------------------------------------------------
(* Reporting and exit status of the throughput main *)

\* `if config.get("num_iters")` : a present, non-zero value
num_iters_truthy(cfg) == "num_iters" \in DOMAIN cfg /\ cfg["num_iters"] # 0

(* The decisions between iterations mode and duration mode *)

\* start_ib_server, lines 176-180, and run_ib_client, lines 219-223: the test
\* mode parameter of the ib_write_bw command, decided by `num_iters is not None`
test_param(cfg) ==
    IF num_iters_given(cfg) THEN <<"-n", cfg["num_iters"]>>
    ELSE <<"-D", cfg["duration"]>>

\* run_ib_client, line 248: the timeout of the client call in iterations mode
ITER_TIMEOUT == 600

\* run_ib_client, line 250: the buffer added to the duration in duration mode
DURATION_BUFFER == 300

\* run_ib_client, lines 247-250
client_timeout(cfg) ==
    IF num_iters_given(cfg) THEN ITER_TIMEOUT ELSE cfg["duration"] + DURATION_BUFFER

\* run_multi_nic_test, line 399, and main, line 798
include_peak_of(cfg) == num_iters_given(cfg)

\* output_json_results, line 627: the test_mode of the JSON report, decided by
\* the truthiness of config.get("num_iters")
json_test_mode(cfg) == IF num_iters_truthy(cfg) THEN "iterations" ELSE "duration"

\* line 630 reads config["duration"] whenever line 627 is falsy
output_json_raises(cfg) == ~num_iters_truthy(cfg) /\ "duration" \notin DOMAIN cfg

ReportRows(rs) == [k \in DOMAIN rs |-> [pair_idx |-> rs[k].pair_idx,
                                       success |-> rs[k].success,
                                       error |-> rs[k].error_msg]]

\* the successful results, in list order
Successful(rs) == SelectSeq(rs, LAMBDA r : r.success)

\* sum of bw_avg_gbps over a list of results
RECURSIVE SumAvg(_)
SumAvg(rs) == IF rs = <<>> THEN 0 ELSE Head(rs).bw_avg_gbps + SumAvg(Tail(rs))

\* sum of bw_peak_gbps over a list of results, None counting for nothing
RECURSIVE SumPeak(_)
SumPeak(rs) ==
    IF rs = <<>> THEN 0
    ELSE (IF Head(rs).bw_peak_gbps # <<>> THEN Head(rs).bw_peak_gbps[1] ELSE 0)
         + SumPeak(Tail(rs))

\* a figure as it is written, with two decimals: total / n in hundredths of a
\* Gbps, to the nearest hundredth (round(x, 2) and "{:.2f}")
two_decimals(total, n) == (2 * 100 * total + n) \div (2 * n)

\* the summary figures of a report; <<>> for a figure that is not written
Summary(total_pairs, successful, total_avg, per_nic_avg, total_peak, per_nic_peak) ==
    [total_pairs |-> total_pairs, successful |-> successful,
     total_avg_bw |-> total_avg, per_nic_avg_bw |-> per_nic_avg,
     total_peak_bw |-> total_peak, per_nic_peak_bw |-> per_nic_peak]

\* print_results, lines 511-572: one table row per result, then the summary;
\* the throughput lines are printed only when a test succeeded
print_results(rs, include_peak) ==
    LET ok == Successful(rs)
        successful_tests == Len(ok)
        shown == successful_tests > 0
    IN  [format |-> "table", rows |-> ReportRows(rs),
         test_mode |-> IF include_peak THEN "iterations" ELSE "duration",
         summary |->
            Summary(Len(rs), successful_tests,
                    IF shown THEN <<two_decimals(SumAvg(ok), 1)>> ELSE <<>>,
                    IF shown THEN <<two_decimals(SumAvg(ok), successful_tests)>> ELSE <<>>,
                    IF shown /\ include_peak
                    THEN <<two_decimals(SumPeak(ok), 1)>> ELSE <<>>,
                    IF shown /\ include_peak
                    THEN <<two_decimals(SumPeak(ok), successful_tests)>> ELSE <<>>)]

\* a plausible slip: the per-NIC figures are averaged over all pairs
output_json_results_per_pair(rs, cfg, include_peak) ==
    LET ok == Successful(rs)
    IN  [format |-> "json", rows |-> ReportRows(rs),
         test_mode |-> json_test_mode(cfg),
         summary |->
            Summary(Len(rs), Len(ok),
                    <<two_decimals(SumAvg(ok), 1)>>,
                    <<IF ok # <<>> THEN two_decimals(SumAvg(ok), Len(rs)) ELSE 0>>,
                    IF include_peak THEN <<two_decimals(SumPeak(ok), 1)>> ELSE <<>>,
                    IF include_peak
                    THEN <<IF ok # <<>> THEN two_decimals(SumPeak(ok), Len(rs)) ELSE 0>>
                    ELSE <<>>)]

\* output_json_results, lines 575-637, when it does not raise
output_json_results(rs, cfg, include_peak) ==
    LET ok == Successful(rs)
    IN  [format |-> "json", rows |-> ReportRows(rs),
         test_mode |-> json_test_mode(cfg),
         summary |->
            Summary(Len(rs), Len(ok),
                    <<two_decimals(SumAvg(ok), 1)>>,
                    <<IF ok # <<>> THEN two_decimals(SumAvg(ok), Len(ok)) ELSE 0>>,
                    IF include_peak THEN <<two_decimals(SumPeak(ok), 1)>> ELSE <<>>,
                    IF include_peak
                    THEN <<IF ok # <<>> THEN two_decimals(SumPeak(ok), Len(ok)) ELSE 0>>
                    ELSE <<>>)]

\* main, lines 798-807; an exception that escapes main ends the process with
\* status 1 and nothing on stdout
Report ==
    /\ pc = "report"
    /\ IF json_output /\ output_json_raises(config)
       THEN Exit(1) /\ UNCHANGED report
       ELSE /\ report' = IF json_output
                         THEN <<output_json_results(results, config,
                                                    num_iters_given(config))>>
                         ELSE <<print_results(results, num_iters_given(config))>>
            /\ pc' = "exit"
            /\ UNCHANGED exit_code
    /\ UNCHANGED <<config, json_output, pairs, loop_i, all_success, server_procs,
                   client_futures, results>>

\* line 810
has_failures(rs) == \E k \in DOMAIN rs : ~rs[k].success

\* main, lines 809-811
MainExit ==
    /\ pc = "exit"
    /\ Exit(IF has_failures(results) THEN 1 ELSE 0)
    /\ UNCHANGED <<config, json_output, pairs, loop_i, all_success, server_procs,
                   client_futures, results, report>>

RunNext ==
    \/ StartServer /\ UNCHANGED <<mvars, cvars>>
    \/ Settle /\ UNCHANGED <<mvars, cvars>>
    \/ SubmitClients /\ UNCHANGED <<mvars, cvars>>
    \/ \E i \in DOMAIN client_futures : ClientFinish(i) /\ UNCHANGED <<mvars, cvars>>
    \/ \E i \in DOMAIN client_futures : Collect(i) /\ UNCHANGED <<mvars, cvars>>
    \/ PoolExit /\ UNCHANGED <<mvars, cvars>>
    \/ ReapServer /\ UNCHANGED <<mvars, cvars>>
    \/ SortAndReturn /\ UNCHANGED <<mvars, cvars>>

Next ==
    \/ LoadConfig /\ UNCHANGED <<mvars, cvars>>
    \/ DiscoverStart /\ UNCHANGED <<mvars, cvars>>
    \/ DiscoverPair /\ UNCHANGED <<mvars, cvars>>
    \/ DiscoverDone /\ UNCHANGED <<mvars, cvars>>
    \/ RunNext
    \/ Report /\ UNCHANGED <<mvars, cvars>>
    \/ MainExit /\ UNCHANGED <<mvars, cvars>>

\* the throughput program, from its configuration file to its exit
Spec == Init /\ [][Next]_vars

----------------------------------------------------------------------------
(* assign_ports on its own, on every bounded pair list *)

InitPorts ==
    /\ MeshIdle
    /\ CallIdle
    /\ pc = "assign_ports"
    /\ config = ConfigDict(<<1>>, <<>>, <<>>)
    /\ json_output = FALSE
    /\ pairs \in PairLists(PortPods, MaxPortPairs)
    /\ loop_i = 0
    /\ all_success = TRUE
    /\ server_procs = <<>>
    /\ client_futures = <<>>
    /\ results = <<>>
    /\ report = <<>>
    /\ exit_code = <<>>

AssignPortsCall ==
    /\ pc = "assign_ports"
    /\ pairs' = assign_ports(pairs)
    /\ pc' = "ports_assigned"
    /\ UNCHANGED <<config, json_output, loop_i, all_success, server_procs,
                   client_futures, results, report, exit_code>>

SpecPorts == InitPorts /\ [][AssignPortsCall /\ UNCHANGED <<mvars, cvars>>]_vars

----------------------------------------------------------------------------
(* run_multi_nic_test on its own: called on any discovered pair list, also one *)
(* with unresolved pairs (which main never passes on)                         *)

ResolveOk == run_kubectl_command("exit0", "eth0")

IpOk == run_kubectl_command("exit0", "10.0.0.1")

IpFail == run_kubectl_command("nonzero", "")

\* the list discover_endpoints leaves when exactly the pairs at `resolved` resolve
Discovered(ps, tos, resolved) ==
    [i \in DOMAIN ps |->
        discover_pair(assign_ports(ps)[i], tos, ResolveOk, IpOk, ResolveOk,
                      IF i \in resolved THEN IpOk ELSE IpFail)[1]]

InitRun ==
    /\ MeshIdle
    /\ CallIdle
    /\ pc = "start_servers"
    /\ config \in {load_config(c) : c \in {f \in ConfigFiles : ~load_config_rejects(f, <<1>>)}}
    /\ json_output \in BOOLEAN
    /\ \E ps \in PairLists(Pods, MaxPairs) : \E resolved \in SUBSET DOMAIN ps :
          /\ pairs = Discovered(ps, tos_given(config), resolved)
          /\ all_success = (resolved = DOMAIN ps)
    /\ loop_i = 1
    /\ server_procs = <<>>
    /\ client_futures = <<>>
    /\ results = <<>>
    /\ report = <<>>
    /\ exit_code = <<>>

SpecRun == InitRun /\ [][RunNext]_vars

----------------------------------------------------------------------------
(* Mesh mode (pingmesh.py): configuration and discovery *)

EntityOrder == <<"n1", "n2", "n3">>

EntityNames == Range(EntityOrder)

EntityRank(e) == CHOOSE r \in DOMAIN EntityOrder : EntityOrder[r] = e

\* entity names are interchangeable: a list introduces them in the order n1, n2, n3
FirstUseOrder(l) ==
    \A i \in DOMAIN l :
        EntityRank(l[i]) = 1 \/ \E j \in 1..(i - 1) : EntityRank(l[j]) = EntityRank(l[i]) - 1

InterfaceLists == {<<"rdma0">>, <<"rdma0", "rdma1">>}

\* the max_workers values of the configurations
WorkerCounts == {1, 2}

\* the lists of at most n entities a configuration can name
EntityLists(n) == {l \in UNION {[1..k -> EntityNames] : k \in 0..n} : FirstUseOrder(l)}

\* the configuration files: a "nodes" list, a "pods" list, or (rejected) both
MeshConfigFiles ==
    {[nodes |-> l, pods |-> <<>>, interfaces |-> ifs, max_workers |-> w] :
        l \in EntityLists(MaxEntities), ifs \in InterfaceLists, w \in WorkerCounts}
    \cup {[nodes |-> <<>>, pods |-> l, interfaces |-> <<"rdma0">>, max_workers |-> 1] :
        l \in EntityLists(1)}
    \cup {[nodes |-> <<"n1">>, pods |-> <<"n2">>, interfaces |-> <<"rdma0">>,
           max_workers |-> 1]}

\* pingmesh load_config raises ValueError (lines 458-469)
mesh_load_config_rejects(cfg) ==
    \/ cfg.nodes = <<>> /\ cfg.pods = <<>>
    \/ cfg.nodes # <<>> /\ cfg.pods # <<>>
    \/ cfg.interfaces = <<>>

\* main, lines 531-541
entities_of(cfg) == IF cfg.pods # <<>> THEN cfg.pods ELSE cfg.nodes

\* replies to get_interface_ip's command in the mesh discovery
MeshIpReplies == {run_kubectl_command("exit0", "10.0.0.1"),
                  run_kubectl_command("nonzero", "")}

\* pingmesh get_interface_ip, lines 105-109
mesh_get_interface_ip(reply) == IF reply.ok /\ reply.out # "" THEN reply.out ELSE None

\* collect_interface_ips, lines 152-183: entity -> the interfaces an IP was found for
collect_interface_ips(ents, ifaces, replies) ==
    [e \in Range(ents) |->
        {f \in Range(ifaces) : mesh_get_interface_ip(replies[<<e, f>>]) # None}]

\* main, line 558
total_ips(ips) ==
    LET RECURSIVE Sum(_)
        Sum(es) == IF es = {} THEN 0
                   ELSE LET e == CHOOSE x \in es : TRUE
                        IN Cardinality(ips[e]) + Sum(es \ {e})
    IN Sum(DOMAIN ips)

----------------------------------------------------------------------------
(* run_pingmesh_tests *)

\* itertools.combinations(entities, 2): the position pairs i < j, in order
RECURSIVE CombinationsFrom(_, _, _)
CombinationsFrom(ents, i, j) ==
    IF i >= Len(ents) THEN <<>>
    ELSE IF j > Len(ents) THEN CombinationsFrom(ents, i + 1, i + 2)
    ELSE <<<<ents[i], ents[j]>>>> \o CombinationsFrom(ents, i, j + 1)

combinations(ents) == CombinationsFrom(ents, 1, 2)

NodePairResult == [total_pairs |-> 0, successful_pairs |-> 0, failed_tests |-> <<>>]

\* lines 213-217
init_results(entity_pairs) == [key \in Range(entity_pairs) |-> NodePairResult]

\* the interfaces of `ifaces` that resolved, in configuration order
RECURSIVE ResolvedSeq(_, _)
ResolvedSeq(ifaces, resolved) ==
    IF ifaces = <<>> THEN <<>>
    ELSE (IF Head(ifaces) \in resolved THEN <<Head(ifaces)>> ELSE <<>>)
         \o ResolvedSeq(Tail(ifaces), resolved)

\* lines 226-235: the cross product of two interface lists for one entity pair
RECURSIVE CrossTasks(_, _, _, _)
CrossTasks(key, as, bs, k) ==
    IF k > Len(as) * Len(bs) THEN <<>>
    ELSE <<[entity_a |-> key[1], entity_b |-> key[2],
            src_iface |-> as[((k - 1) \div Len(bs)) + 1],
            dst_iface |-> bs[((k - 1) % Len(bs)) + 1]]>>
         \o CrossTasks(key, as, bs, k + 1)

\* lines 220-235
RECURSIVE TasksFrom(_, _, _, _)
TasksFrom(entity_pairs, ifaces, ips, n) ==
    IF n > Len(entity_pairs) THEN <<>>
    ELSE CrossTasks(entity_pairs[n],
                    ResolvedSeq(ifaces, ips[entity_pairs[n][1]]),
                    ResolvedSeq(ifaces, ips[entity_pairs[n][2]]), 1)
         \o TasksFrom(entity_pairs, ifaces, ips, n + 1)

build_ping_tasks(ents, ifaces, ips) == TasksFrom(combinations(ents), ifaces, ips, 1)

\* replies to the ping command
PingReplies ==
    {run_kubectl_command("exit0", "3 received"),
     run_kubectl_command("nonzero", "100% packet loss"),
     run_kubectl_command("timeout", "")}

\* run_ping_test, lines 126-137, on the replies its attempts get:
\* (success, output), the attempts made and the backoff sleeps taken
RECURSIVE PingAttempt(_, _, _, _)
PingAttempt(replies, attempt, retries, sleeps) ==
    IF attempt > retries
    THEN [success |-> FALSE, output |-> replies[attempt].out,
          attempts |-> attempt, sleeps |-> sleeps]
    ELSE IF replies[attempt + 1].ok
    THEN [success |-> TRUE, output |-> replies[attempt + 1].out,
          attempts |-> attempt + 1, sleeps |-> sleeps]
    ELSE PingAttempt(replies, attempt + 1, retries,
                     IF attempt < retries THEN sleeps + 1 ELSE sleeps)

\* a plausible slip: the backoff is slept after every failed attempt, the last included
run_ping_test_sleeps_last(replies, retries) ==
    LET r == PingAttempt(replies, 0, retries, 0)
    IN [r EXCEPT !.sleeps = IF r.success THEN @ ELSE @ + 1]

run_ping_test(replies, retries) == PingAttempt(replies, 0, retries, 0)

\* run_ping_test's default retries
RETRIES == 1

PingResult(task, error_msg) ==
    [src_node |-> task.entity_a, src_iface |-> task.src_iface,
     dst_node |-> task.entity_b, dst_iface |-> task.dst_iface,
     success |-> FALSE, error_msg |-> error_msg]

\* a plausible slip: a failure replaces the pair's failure list instead of joining it
tally_overwrites(old, task, fut) ==
    LET counted == [old EXCEPT !.total_pairs = @ + 1]
    IN  IF fut.raised
        THEN [counted EXCEPT !.failed_tests = <<PingResult(task, "exception")>>]
        ELSE IF fut.ret[1]
        THEN [counted EXCEPT !.successful_pairs = @ + 1]
        ELSE [counted EXCEPT !.failed_tests =
                 <<PingResult(task, IF fut.ret[2] # "" THEN fut.ret[2]
                                    ELSE "Unknown error")>>]

\* a plausible slip: total_pairs is counted after future.result(), inside the try,
\* so that a raised exception leaves it behind
tally_counts_after_result(old, task, fut) ==
    IF fut.raised
    THEN [old EXCEPT !.failed_tests = Append(@, PingResult(task, "exception"))]
    ELSE LET counted == [old EXCEPT !.total_pairs = @ + 1]
         IN  IF fut.ret[1]
             THEN [counted EXCEPT !.successful_pairs = @ + 1]
             ELSE [counted EXCEPT !.failed_tests =
                      Append(@, PingResult(task, IF fut.ret[2] # "" THEN fut.ret[2]
                                                 ELSE "Unknown error"))]

\* lines 269-297: the tally of the task's entity pair after this completion
tally(old, task, fut) ==
    LET counted == [old EXCEPT !.total_pairs = @ + 1]
    IN  IF fut.raised
        THEN [counted EXCEPT !.failed_tests = Append(@, PingResult(task, "exception"))]
        ELSE IF fut.ret[1]
        THEN [counted EXCEPT !.successful_pairs = @ + 1]
        ELSE [counted EXCEPT !.failed_tests =
                 Append(@, PingResult(task, IF fut.ret[2] # "" THEN fut.ret[2]
                                            ELSE "Unknown error"))]

\* a plausible slip: the exit test looks at fully failed pairs only
mesh_has_failures_disconnected(rs) ==
    \E key \in DOMAIN rs : rs[key].total_pairs > 0 /\ rs[key].successful_pairs = 0

\* main, lines 585-589
mesh_has_failures(rs) ==
    \E key \in DOMAIN rs :
        rs[key].total_pairs > 0 /\ rs[key].successful_pairs < rs[key].total_pairs

----------------------------------------------------------------------------
(* Mesh mode: the program *)

\* the throughput program is not running
ThroughputIdle ==
    /\ pc = "idle"
    /\ config = <<>>
    /\ json_output = FALSE
    /\ pairs = <<>>
    /\ loop_i = 0
    /\ all_success = TRUE
    /\ server_procs = <<>>
    /\ client_futures = <<>>
    /\ results = <<>>
    /\ report = <<>>
    /\ exit_code = <<>>

InitMesh ==
    /\ ThroughputIdle
    /\ CallIdle
    /\ mpc = "load_config"
    /\ mesh_config \in MeshConfigFiles
    /\ entity_interface_ips = <<>>
    /\ ping_tasks = <<>>
    /\ futures = <<>>
    /\ mesh_results = <<>>
    /\ mesh_exit_code = <<>>
    /\ mesh_report = <<>>

MeshExitWith(code) ==
    /\ mpc' = "exited"
    /\ mesh_exit_code' = <<code>>

\* pingmesh main, lines 514-525
MeshLoadConfig ==
    /\ mpc = "load_config"
    /\ IF mesh_load_config_rejects(mesh_config)
       THEN MeshExitWith(1)
       ELSE mpc' = "collect_ips" /\ UNCHANGED mesh_exit_code
    /\ UNCHANGED <<mesh_config, entity_interface_ips, ping_tasks, futures,
                   mesh_results>>
    /\ UNCHANGED mesh_report

\* pingmesh main, lines 551-555: every lookup gets some reply
CollectIps ==
    /\ mpc = "collect_ips"
    /\ \E replies \in [Range(entities_of(mesh_config)) \X Range(mesh_config.interfaces)
                       -> MeshIpReplies] :
          entity_interface_ips' =
              collect_interface_ips(entities_of(mesh_config), mesh_config.interfaces,
                                    replies)
    /\ mpc' = "check_ips"
    /\ UNCHANGED <<mesh_config, ping_tasks, futures, mesh_results, mesh_exit_code>>
    /\ UNCHANGED mesh_report

QueuedFuture == [state |-> "queued", raised |-> FALSE, ret |-> <<>>]

\* a plausible slip: the run is aborted as soon as one target has no resolved adapter
MeshStart_any_unresolved ==
    /\ mpc = "check_ips"
    /\ IF \E e \in DOMAIN entity_interface_ips : entity_interface_ips[e] = {}
       THEN /\ MeshExitWith(1)
            /\ UNCHANGED <<ping_tasks, futures, mesh_results>>
       ELSE LET tasks == build_ping_tasks(entities_of(mesh_config),
                                          mesh_config.interfaces, entity_interface_ips)
            IN /\ Len(tasks) <= MaxTasks
               /\ mesh_results' = init_results(combinations(entities_of(mesh_config)))
               /\ ping_tasks' = tasks
               /\ futures' = [t \in DOMAIN tasks |-> QueuedFuture]
               /\ mpc' = "ping"
               /\ UNCHANGED mesh_exit_code
    /\ UNCHANGED <<mesh_config, entity_interface_ips>>
    /\ UNCHANGED mesh_report

\* pingmesh main, lines 557-577, and run_pingmesh_tests, lines 207-262: without
\* any IP the process exits; else the tallies are initialised and every task is
\* submitted to the pool
MeshStart ==
    /\ mpc = "check_ips"
    /\ IF total_ips(entity_interface_ips) = 0
       THEN /\ MeshExitWith(1)
            /\ UNCHANGED <<ping_tasks, futures, mesh_results>>
       ELSE LET tasks == build_ping_tasks(entities_of(mesh_config),
                                          mesh_config.interfaces, entity_interface_ips)
            IN /\ Len(tasks) <= MaxTasks
               /\ mesh_results' = init_results(combinations(entities_of(mesh_config)))
               /\ ping_tasks' = tasks
               /\ futures' = [t \in DOMAIN tasks |-> QueuedFuture]
               /\ mpc' = "ping"
               /\ UNCHANGED mesh_exit_code
    /\ UNCHANGED <<mesh_config, entity_interface_ips>>
    /\ UNCHANGED mesh_report

RunningTasks == {t \in DOMAIN futures : futures[t].state = "running"}

\* a plausible slip: one pool per target pair, each with max_workers workers
WorkerStart_per_pair(t) ==
    /\ mpc = "ping"
    /\ futures[t].state = "queued"
    /\ \A u \in 1..(t - 1) : futures[u].state # "queued"
    /\ Cardinality({u \in RunningTasks :
                       /\ ping_tasks[u].entity_a = ping_tasks[t].entity_a
                       /\ ping_tasks[u].entity_b = ping_tasks[t].entity_b})
          < mesh_config.max_workers
    /\ futures' = [futures EXCEPT ![t].state = "running"]
    /\ UNCHANGED <<mpc, mesh_config, entity_interface_ips, ping_tasks, mesh_results,
                   mesh_exit_code>>
    /\ UNCHANGED mesh_report

\* a free worker of the pool takes the oldest queued task
WorkerStart(t) ==
    /\ mpc = "ping"
    /\ futures[t].state = "queued"
    /\ \A u \in 1..(t - 1) : futures[u].state # "queued"
    /\ Cardinality(RunningTasks) < mesh_config.max_workers
    /\ futures' = [futures EXCEPT ![t].state = "running"]
    /\ UNCHANGED <<mpc, mesh_config, entity_interface_ips, ping_tasks, mesh_results,
                   mesh_exit_code>>
    /\ UNCHANGED mesh_report

\* the worker's run_ping_test ends: with its return value, or by raising
WorkerFinish(t) ==
    /\ mpc = "ping"
    /\ futures[t].state = "running"
    /\ \/ \E replies \in [1..(RETRIES + 1) -> PingReplies] :
             LET r == run_ping_test(replies, RETRIES)
             IN futures' = [futures EXCEPT ![t] =
                               [state |-> "done", raised |-> FALSE,
                                ret |-> <<r.success, r.output>>]]
       \/ futures' = [futures EXCEPT ![t] =
                         [state |-> "done", raised |-> TRUE, ret |-> <<>>]]
    /\ UNCHANGED <<mpc, mesh_config, entity_interface_ips, ping_tasks, mesh_results,
                   mesh_exit_code>>
    /\ UNCHANGED mesh_report

\* a plausible slip: future.result() outside the try, so that an exception raised
\* by one sub-probe escapes run_pingmesh_tests and main
MeshCollect_unguarded(t) ==
    /\ mpc = "ping"
    /\ futures[t].state = "done"
    /\ IF futures[t].raised
       THEN MeshExitWith(1) /\ UNCHANGED <<mesh_results, futures>>
       ELSE /\ LET pair_key == <<ping_tasks[t].entity_a, ping_tasks[t].entity_b>>
               IN mesh_results' = [mesh_results EXCEPT
                                      ![pair_key] = tally(@, ping_tasks[t], futures[t])]
            /\ futures' = [futures EXCEPT ![t].state = "collected"]
            /\ UNCHANGED <<mpc, mesh_exit_code>>
    /\ UNCHANGED <<mesh_config, entity_interface_ips, ping_tasks, mesh_report>>

\* lines 264-299, one iteration of the as_completed loop
MeshCollect(t) ==
    /\ mpc = "ping"
    /\ futures[t].state = "done"
    /\ LET pair_key == <<ping_tasks[t].entity_a, ping_tasks[t].entity_b>>
       IN mesh_results' = [mesh_results EXCEPT
                              ![pair_key] = tally(@, ping_tasks[t], futures[t])]
    /\ futures' = [futures EXCEPT ![t].state = "collected"]
    /\ UNCHANGED <<mpc, mesh_config, entity_interface_ips, ping_tasks, mesh_exit_code>>
    /\ UNCHANGED mesh_report

\* as_completed is exhausted; run_pingmesh_tests returns (line 304)
MeshReturn ==
    /\ mpc = "ping"
    /\ \A t \in DOMAIN futures : futures[t].state = "collected"
    /\ mpc' = "report"
    /\ UNCHANGED <<mesh_config, entity_interface_ips, ping_tasks, futures,
                   mesh_results, mesh_exit_code>>
    /\ UNCHANGED mesh_report

\* get_pair_result, lines 307-309: a NodePairResult object is always truthy, so
\* `or` only falls through when the first key is missing; <<>> stands for None
get_pair_result(rs, node_a, node_b) ==
    IF <<node_a, node_b>> \in DOMAIN rs THEN <<rs[<<node_a, node_b>>]>>
    ELSE IF <<node_b, node_a>> \in DOMAIN rs THEN <<rs[<<node_b, node_a>>]>>
    ELSE <<>>

\* a cell of the matrix: its text ("-", "N/A", or "ratio" for success/total) and style
Cell(text, success, total, style) ==
    [text |-> text, success |-> success, total |-> total, style |-> style]

\* print_results_matrix, lines 336-360: the cell of row i, column j
matrix_cell(ents, rs, i, j) ==
    IF i = j THEN Cell("-", 0, 0, "dim")
    ELSE LET pair_result == get_pair_result(rs, ents[i], ents[j])
         IN  IF pair_result # <<>>
             THEN LET total == pair_result[1].total_pairs
                      success == pair_result[1].successful_pairs
                  IN Cell("ratio", success, total,
                          IF total = 0 THEN "dim"
                          ELSE IF success = total THEN "bold green"
                          ELSE IF success > 0 THEN "bold yellow"
                          ELSE "bold red")
             ELSE Cell("N/A", 0, 0, "dim")

\* print_results_matrix, lines 312-362
print_results_matrix(ents, rs) ==
    [ij \in (DOMAIN ents) \X (DOMAIN ents) |-> matrix_cell(ents, rs, ij[1], ij[2])]

\* the sum of one counter over the tallies of `keys`
RECURSIVE SumField(_, _, _)
SumField(rs, keys, fld) ==
    IF keys = {} THEN 0
    ELSE LET k == CHOOSE x \in keys : TRUE
         IN rs[k][fld] + SumField(rs, keys \ {k}, fld)

\* f"{pct:.4f}" of (total_success / total_pairs) * 100, in units of 0.0001 percent:
\* the format rounds to the nearest fourth decimal
format_pct(total_success, total_pairs) ==
    (2 * 1000000 * total_success + total_pairs) \div (2 * total_pairs)

\* a plausible slip: pairs without attempted sub-probes are classified as well
print_summary_counts_untested(rs) ==
    LET total_pairs == SumField(rs, DOMAIN rs, "total_pairs")
        total_success == SumField(rs, DOMAIN rs, "successful_pairs")
        tested == DOMAIN rs
    IN  [total_node_pairs |-> Cardinality(DOMAIN rs),
         total_pairs |-> total_pairs,
         total_success |-> total_success,
         pct |-> IF total_pairs > 0 THEN <<format_pct(total_success, total_pairs)>>
                 ELSE <<>>,
         fully_connected |->
             Cardinality({k \in tested : rs[k].successful_pairs = rs[k].total_pairs}),
         partially_connected |->
             Cardinality({k \in tested : /\ rs[k].successful_pairs # rs[k].total_pairs
                                         /\ rs[k].successful_pairs > 0}),
         disconnected |->
             Cardinality({k \in tested : /\ rs[k].successful_pairs # rs[k].total_pairs
                                         /\ rs[k].successful_pairs <= 0})]

\* print_summary, lines 405-443; pct is <<>> when "No tests run" is printed
print_summary(rs) ==
    LET total_pairs == SumField(rs, DOMAIN rs, "total_pairs")
        total_success == SumField(rs, DOMAIN rs, "successful_pairs")
        tested == {k \in DOMAIN rs : rs[k].total_pairs > 0}
    IN  [total_node_pairs |-> Cardinality(DOMAIN rs),
         total_pairs |-> total_pairs,
         total_success |-> total_success,
         pct |-> IF total_pairs > 0 THEN <<format_pct(total_success, total_pairs)>>
                 ELSE <<>>,
         fully_connected |->
             Cardinality({k \in tested : rs[k].successful_pairs = rs[k].total_pairs}),
         partially_connected |->
             Cardinality({k \in tested : /\ rs[k].successful_pairs # rs[k].total_pairs
                                         /\ rs[k].successful_pairs > 0}),
         disconnected |->
             Cardinality({k \in tested : /\ rs[k].successful_pairs # rs[k].total_pairs
                                         /\ rs[k].successful_pairs <= 0})]

\* line 388: at most this many failures are listed per pair
FAILURE_LIMIT == 10

\* print_failure_details, lines 365-402: per failed pair (printed in key order)
\* its status line and its first failures
print_failure_details(rs) ==
    LET failed_pairs == {k \in DOMAIN rs : /\ rs[k].failed_tests # <<>>
                                           /\ rs[k].successful_pairs < rs[k].total_pairs}
    IN  [k \in failed_pairs |->
            [successful_pairs |-> rs[k].successful_pairs,
             total_pairs |-> rs[k].total_pairs,
             failed |-> SubSeq(rs[k].failed_tests, 1,
                               IF Len(rs[k].failed_tests) > FAILURE_LIMIT
                               THEN FAILURE_LIMIT ELSE Len(rs[k].failed_tests))]]

\* pingmesh main, lines 579-590
MeshExit ==
    /\ mpc = "report"
    /\ mesh_report' = <<[matrix |-> print_results_matrix(entities_of(mesh_config),
                                                         mesh_results),
                         summary |-> print_summary(mesh_results),
                         failures |-> print_failure_details(mesh_results)]>>
    /\ MeshExitWith(IF mesh_has_failures(mesh_results) THEN 1 ELSE 0)
    /\ UNCHANGED <<mesh_config, entity_interface_ips, ping_tasks, futures,
                   mesh_results>>

MeshNext ==
    \/ MeshLoadConfig /\ UNCHANGED <<tvars, cvars>>
    \/ CollectIps /\ UNCHANGED <<tvars, cvars>>
    \/ MeshStart /\ UNCHANGED <<tvars, cvars>>
    \/ \E t \in DOMAIN futures : WorkerStart(t) /\ UNCHANGED <<tvars, cvars>>
    \/ \E t \in DOMAIN futures : WorkerFinish(t) /\ UNCHANGED <<tvars, cvars>>
    \/ \E t \in DOMAIN futures : MeshCollect(t) /\ UNCHANGED <<tvars, cvars>>
    \/ MeshReturn /\ UNCHANGED <<tvars, cvars>>
    \/ MeshExit /\ UNCHANGED <<tvars, cvars>>

\* the pingmesh program, from its configuration file to its exit
SpecMesh == InitMesh /\ [][MeshNext]_vars

----------------------------------------------------------------------------
(* NUMA lookup of discover_endpoints *)

\* what the remote executor does on the cat of the HCA's numa_node file
NumaCalls == {<<"exit0", "0">>, <<"exit0", "1">>, <<"exit0", "-1">>,
              <<"exit0", "abc">>, <<"exit0", "">>, <<"nonzero", "not found">>,
              <<"timeout", "">>}

\* int(output.strip()) on the outputs above: <<n>>, or <<>> for a ValueError
int_of_str(s) ==
    CASE s = "0"  -> <<0>>
      [] s = "1"  -> <<1>>
      [] s = "-1" -> <<-1>>
      [] OTHER    -> <<>>

\* a plausible slip: the sentinel -1 is returned as it was read
get_numa_node_for_hca_keeps_sentinel(reply) ==
    IF reply.ok /\ reply.out # ""
    THEN LET numa_node == int_of_str(reply.out)
         IN IF numa_node = <<>> THEN 0 ELSE numa_node[1]
    ELSE 0

\* get_numa_node_for_hca, lines 143-158, given the reply to its command
get_numa_node_for_hca(reply) ==
    IF reply.ok /\ reply.out # ""
    THEN LET numa_node == int_of_str(reply.out)
         IN IF numa_node = <<>> THEN 0
            ELSE IF numa_node[1] = -1 THEN 0 ELSE numa_node[1]
    ELSE 0

\* TestPair with its src_numa and dst_numa fields, lines 49-50
NumaPair(pair, src_numa, dst_numa) ==
    [f \in DOMAIN pair \cup {"src_numa", "dst_numa"} |->
        IF f = "src_numa" THEN src_numa
        ELSE IF f = "dst_numa" THEN dst_numa
        ELSE pair[f]]

\* one iteration of the loop of lines 320-375 with its NUMA lookups (lines
\* 367-369), which are made only when the iteration was not left before;
\* lookups are the replies to the four interface and IP lookups, in call order
discover_pair_numa(pair, tos, lookups, src_numa_r, dst_numa_r) ==
    LET r == discover_pair(pair, tos, lookups[1], lookups[2], lookups[3], lookups[4])
    IN  IF r[2]
        THEN <<NumaPair(r[1], get_numa_node_for_hca(src_numa_r),
                        get_numa_node_for_hca(dst_numa_r)), TRUE>>
        ELSE <<NumaPair(r[1], 0, 0), FALSE>>

----------------------------------------------------------------------------
(* One call on its own: run_ib_client with the collection of its result,
   run_ping_test with the tally of its result, and one iteration of the
   discovery loop with its NUMA lookups *)

\* what the remote executor does on one call: how the command ends, and its output
RunCalls == {<<"exit0", "stdout">>, <<"nonzero", "stderr">>, <<"timeout", "">>}

CatCalls == {<<"exit0", "J">>, <<"exit0", "">>, <<"nonzero", "No such file">>}

PingCalls == {<<"exit0", "3 received">>, <<"nonzero", "100% packet loss">>,
              <<"timeout", "">>}

\* the reply run_kubectl_command gives for such a call
reply_of(c) == run_kubectl_command(c[1], c[2])

ClientCallArgs ==
    {[fn |-> "run_ib_client", run |-> rc, cat |-> cc, include_peak |-> b] :
        rc \in RunCalls, cc \in CatCalls, b \in BOOLEAN}

PingCallArgs ==
    UNION {{[fn |-> "run_ping_test", retries |-> r, calls |-> cs] :
               cs \in [1..(r + 1) -> PingCalls]} : r \in 0..MaxRetries}

DiscoverCallArgs ==
    {[fn |-> "discover_endpoints", tos |-> tos, src_iface |-> sf, src_ip |-> si,
      iface |-> f, ip |-> i, src_numa |-> sn, dst_numa |-> dn] :
        tos \in BOOLEAN, sf \in LookupReplies, si \in IpReplies,
        f \in LookupReplies, i \in IpReplies, sn \in NumaCalls, dn \in NumaCalls}

InitCall ==
    /\ ThroughputIdle
    /\ MeshIdle
    /\ call_args \in ClientCallArgs \cup PingCallArgs \cup DiscoverCallArgs
    /\ call_ret = <<>>

\* the sub-probe the examined run_ping_test call belongs to
CallTask == [entity_a |-> "n1", entity_b |-> "n2",
             src_iface |-> "rdma0", dst_iface |-> "rdma0"]

\* run_ib_client (lines 253-267) and the collection of its future (lines 450-476)
CallClient ==
    /\ call_args.fn = "run_ib_client"
    /\ call_ret = <<>>
    /\ call_ret' = <<collect_result(0, TestPair("pod1"),
                                    Done(FALSE, run_ib_client(reply_of(call_args.run),
                                                              reply_of(call_args.cat))),
                                    call_args.include_peak)>>
    /\ UNCHANGED call_args

\* run_ping_test (lines 112-137) and the tally of its future (lines 264-286)
CallPing ==
    /\ call_args.fn = "run_ping_test"
    /\ call_ret = <<>>
    /\ LET r == run_ping_test([a \in DOMAIN call_args.calls |->
                                  reply_of(call_args.calls[a])],
                              call_args.retries)
       IN call_ret' = <<[ping |-> r,
                         tally |-> tally(NodePairResult, CallTask,
                                         [state |-> "done", raised |-> FALSE,
                                          ret |-> <<r.success, r.output>>])]>>
    /\ UNCHANGED call_args

\* discover_endpoints, lines 320-375: the iteration on one pair
CallDiscover ==
    /\ call_args.fn = "discover_endpoints"
    /\ call_ret = <<>>
    /\ LET r == discover_pair_numa(TestPair("pod1"), call_args.tos,
                                   <<call_args.src_iface, call_args.src_ip,
                                     call_args.iface, call_args.ip>>,
                                   reply_of(call_args.src_numa),
                                   reply_of(call_args.dst_numa))
       IN call_ret' = <<[pair |-> r[1], ok |-> r[2]]>>
    /\ UNCHANGED call_args

CallNext ==
    \/ CallClient /\ UNCHANGED <<tvars, mvars>>
    \/ CallPing /\ UNCHANGED <<tvars, mvars>>
    \/ CallDiscover /\ UNCHANGED <<tvars, mvars>>

SpecCall == InitCall /\ [][CallNext]_vars

\* the configurations of the scheduling runs: distinct nodes, one interface
PoolConfigFiles ==
    {c \in MeshConfigFiles :
        /\ c.pods = <<>>
        /\ c.interfaces = <<"rdma0">>
        /\ Len(c.nodes) >= 2
        /\ \A i, j \in DOMAIN c.nodes : i # j => c.nodes[i] # c.nodes[j]}

InitMeshPool == InitMesh /\ mesh_config \in PoolConfigFiles

\* the pingmesh program with its scheduling: a free worker takes a queued task,
\* every remote call returns or hits its timeout, and the main thread goes on
\* whenever it can
SpecMeshFair == InitMeshPool /\ [][MeshNext]_vars /\ WF_vars(MeshNext)

----------------------------------------------------------------------------
(* Either orchestrator through its concurrent phase, its report and its exit.
   The throughput discovery is sequential; its outcome is part of InitRun. *)

\* a throughput run in duration mode or over one iteration, or a mesh run
InitEither ==
    \/ /\ InitRun
       /\ config \in {load_config(ConfigDict(<<>>, <<>>, <<>>)),
                      load_config(ConfigDict(<<>>, <<1>>, <<>>))}
    \/ InitMesh

NextEither ==
    \/ RunNext
    \/ Report /\ UNCHANGED <<mvars, cvars>>
    \/ MainExit /\ UNCHANGED <<mvars, cvars>>
    \/ MeshNext

SpecEither == InitEither /\ [][NextEither]_vars

----------------------------------------------------------------------------
(* Both programs with their scheduling, on the configurations of the
   termination runs *)

\* throughput configurations: the defaults, an iteration count with a TOS, and a
\* file load_config rejects; at most two test pairs
InitTermination ==
    /\ Init
    /\ config \in {ConfigDict(<<>>, <<>>, <<>>), ConfigDict(<<>>, <<1>>, <<41>>),
                   ConfigDict(<<1>>, <<1>>, <<>>)}
    /\ Len(pairs) <= 2

InitFair == InitTermination \/ InitMeshPool

NextFair == Next \/ MeshNext

\* the main thread goes on whenever it can, a worker thread with a task runs it,
\* and every remote call returns or hits its timeout: some enabled step of the
\* program is eventually taken
SpecFair == InitFair /\ [][NextFair]_vars /\ WF_vars(NextFair)

----------------------------------------------------------------------------
(* Claims on the port allocator *)

PortsAssigned == pc = "ports_assigned"

SameResponder(i, j) == pairs[i].dst_pod = pairs[j].dst_pod

\* C1: once assign_ports has returned, any two distinct pairs with the same
\* dst_pod have different ports.
C1_PortsUniquePerResponder ==
    PortsAssigned =>
        \A i \in DOMAIN pairs : \A j \in DOMAIN pairs :
            (i # j /\ SameResponder(i, j)) => pairs[i].port # pairs[j].port

\* two pairs of one responder next to a pair of another responder that reuses a port
C1_Witness ==
    /\ PortsAssigned
    /\ \E i \in DOMAIN pairs : \E j \in DOMAIN pairs : \E k \in DOMAIN pairs :
          /\ i # j /\ SameResponder(i, j) /\ pairs[i].port # pairs[j].port
          /\ ~SameResponder(i, k) /\ pairs[i].port = pairs[k].port

\* C2: the pair at position i gets BASE_PORT + (number of earlier pairs with the
\* same dst_pod); so the first pair of a responder gets BASE_PORT and the ports
\* of one responder strictly increase in declaration order.
C2_PortIsBasePlusRank ==
    PortsAssigned =>
        /\ \A i \in DOMAIN pairs :
              pairs[i].port =
                  BASE_PORT + Cardinality({j \in 1..(i - 1) : SameResponder(i, j)})
        /\ \A i \in DOMAIN pairs :
              (\A j \in 1..(i - 1) : ~SameResponder(i, j)) => pairs[i].port = BASE_PORT
        /\ \A i \in DOMAIN pairs : \A j \in DOMAIN pairs :
              (i < j /\ SameResponder(i, j)) => pairs[i].port < pairs[j].port

\* three pairs of one responder, interleaved with the first pair of another one
C2_Witness ==
    /\ PortsAssigned
    /\ Len(pairs) = MaxPortPairs
    /\ SameResponder(1, 3) /\ SameResponder(1, Len(pairs)) /\ ~SameResponder(1, 2)
    /\ pairs[1].port = BASE_PORT /\ pairs[2].port = BASE_PORT
    /\ pairs[3].port = BASE_PORT + 1 /\ pairs[Len(pairs)].port > BASE_PORT + 1

----------------------------------------------------------------------------
(* Claims on the throughput run *)

\* run_multi_nic_test has been called and has returned
Returned == server_procs # <<>> /\ pc \in {"report", "exit", "exited"}

\* the process has ended after the probe phase
ExitedAfterProbing == server_procs # <<>> /\ pc = "exited"

Resolved(i) == pairs[i].dst_ip # ""

AllSucceeded == \A k \in DOMAIN results : results[k].success

ResultsOf(i) == {k \in DOMAIN results : results[k].pair_idx = i - 1}

\* C3: once the probe phase has run, the exit code is 0 iff every result has
\* success = true, and 1 if at least one result failed.
C3_ExitZeroIffAllSucceeded ==
    ExitedAfterProbing =>
        /\ (exit_code = <<0>>) <=> AllSucceeded
        /\ ~AllSucceeded => exit_code = <<1>>

\* C5: whatever the completion order, the returned list is in strictly
\* ascending pair_idx order.
C5_ResultsSortedByIndex ==
    Returned =>
        \A k \in DOMAIN results : \A l \in DOMAIN results :
            k < l => results[k].pair_idx < results[l].pair_idx

\* a returned list of several results, one of a failed and one of a successful pair
C5_Witness ==
    /\ Returned
    /\ Len(results) >= 2
    /\ results[1].pair_idx = 0 /\ results[2].pair_idx = 1
    /\ \E k \in DOMAIN results : results[k].success
    /\ \E k \in DOMAIN results : ~results[k].success

\* C6: exactly one result per resolved pair, whatever its initiator's outcome,
\* with pair_idx the pair's position; none duplicated, dropped, or made for a
\* skipped pair.
C6_OneResultPerResolvedPair ==
    /\ \A k \in DOMAIN results :
          /\ results[k].pair_idx + 1 \in DOMAIN pairs
          /\ Resolved(results[k].pair_idx + 1)
          /\ results[k].dst_pod = pairs[results[k].pair_idx + 1].dst_pod
    /\ \A i \in DOMAIN pairs : Cardinality(ResultsOf(i)) <= 1
    /\ Returned =>
          \A i \in DOMAIN pairs :
              Cardinality(ResultsOf(i)) = IF Resolved(i) THEN 1 ELSE 0

\* a returned run with a skipped pair and a pair whose initiator raised
C6_Witness ==
    /\ Returned
    /\ \E i \in DOMAIN pairs : ~Resolved(i) /\ ResultsOf(i) = {}
    /\ \E i \in DOMAIN client_futures :
          client_futures[i].raised /\ Cardinality(ResultsOf(i)) = 1

\* what the initiator of pair i itself came to
InitiatorFailed(i) == client_futures[i].raised \/ ~client_futures[i].ret[1]

InitiatorDelivered(i) ==
    ~client_futures[i].raised /\ client_futures[i].ret[1] /\ client_futures[i].ret[2] # ""

\* C7: one initiator's failure (non-zero exit, timeout, exception) never aborts
\* the run: every resolved pair's initiator is launched and run to completion and
\* its own outcome is what the results record for it.
C7_FailureDoesNotAbort ==
    (server_procs # <<>> /\ pc \in {"reap", "report", "exit", "exited"}) =>
        \A i \in DOMAIN pairs : Resolved(i) =>
            /\ i \in DOMAIN client_futures
            /\ client_futures[i].state = "collected"
            /\ \E k \in ResultsOf(i) :
                  /\ InitiatorFailed(i) => ~results[k].success
                  /\ InitiatorDelivered(i) => results[k].success

\* a finished run in which one initiator raised, one timed out or failed, and
\* another one's success is recorded
C7_Witness ==
    /\ ExitedAfterProbing
    /\ \E i \in DOMAIN client_futures : \E j \in DOMAIN client_futures :
          /\ InitiatorFailed(i)
          /\ InitiatorDelivered(j)
          /\ \E k \in ResultsOf(i) : ~results[k].success
          /\ \E k \in ResultsOf(j) : results[k].success

\* C8: every run that gets past configuration loading and discovery emits a
\* complete report (one entry per probed pair) before exiting, whatever the
\* probe outcomes and the accepted run parameters.
C8_ReportAlwaysEmitted ==
    ExitedAfterProbing =>
        /\ report # <<>>
        /\ Len(report[1].rows) = Cardinality({i \in DOMAIN pairs : Resolved(i)})
        /\ \A k \in DOMAIN report[1].rows :
              /\ report[1].rows[k].pair_idx = results[k].pair_idx
              /\ report[1].rows[k].success = results[k].success

\* discovery has passed a pair and left it unresolved
SomePairUnresolved ==
    /\ pc \notin {"load_config", "discover"}
    /\ loop_i > 0
    /\ \E i \in DOMAIN pairs :
          (pc = "discover_loop" => i < loop_i) /\ ~Resolved(i)

\* C9: if discovery fails for at least one pair, no responder and no initiator is
\* ever started for any pair and the process exits non-zero.
C9_NoProbingAfterFailedDiscovery ==
    SomePairUnresolved =>
        /\ server_procs = <<>>
        /\ client_futures = <<>>
        /\ results = <<>>
        /\ pc \in {"discover_loop", "exited"}
        /\ pc = "exited" => exit_code = <<1>>

\* the process has ended after a discovery in which one pair failed and another
\* resolved
C9_Witness ==
    /\ pc = "exited"
    /\ SomePairUnresolved
    /\ \E j \in DOMAIN pairs : Resolved(j)
    /\ exit_code = <<1>>

\* C10: responders are reaped only after all initiator calls have completed;
\* every started responder is waited on and killed if it has not exited, so at
\* the return none is left neither exited nor killed.
C10_RespondersReaped ==
    /\ (\E i \in DOMAIN server_procs : server_procs[i] \in {"exited", "killed"}) =>
          \A j \in DOMAIN client_futures : client_futures[j].state = "collected"
    /\ pc = "reap" =>
          \A i \in DOMAIN server_procs : i < loop_i => server_procs[i] # "running"
    /\ Returned =>
          \A i \in DOMAIN pairs :
              /\ server_procs[i] \in {None, "exited", "killed"}
              /\ (server_procs[i] = None) <=> ~Resolved(i)

\* a returned run in which the responder of a pair whose initiator timed out was
\* killed and another responder exited by itself
C10_Witness ==
    /\ Returned
    /\ \E i \in DOMAIN client_futures : \E j \in DOMAIN client_futures :
          /\ ~client_futures[i].raised
          /\ client_futures[i].ret[3] = TIMED_OUT
          /\ server_procs[i] = "killed"
          /\ server_procs[j] = "exited"

----------------------------------------------------------------------------
(* Claims on the mesh run *)

\* run_pingmesh_tests has been called and has returned
MeshReturned ==
    /\ mpc \in {"report", "exited"}
    /\ entity_interface_ips # <<>>
    /\ total_ips(entity_interface_ips) > 0

SubProbeSucceeded(t) == ~futures[t].raised /\ futures[t].ret[1]

\* C4: once the probe phase has run, the exit code is 0 iff every executed
\* sub-probe succeeded (successful_pairs = total_pairs for every target pair);
\* one failed sub-probe makes it 1; pairs without sub-probes do not count.
C4_MeshExitZeroIffAllSucceeded ==
    (MeshReturned /\ mpc = "exited") =>
        /\ (mesh_exit_code = <<0>>) <=> \A t \in DOMAIN futures : SubProbeSucceeded(t)
        /\ (mesh_exit_code = <<0>>) <=>
              \A key \in DOMAIN mesh_results :
                  mesh_results[key].successful_pairs = mesh_results[key].total_pairs
        /\ (\E t \in DOMAIN futures : ~SubProbeSucceeded(t)) => mesh_exit_code = <<1>>

\* an exit with status 1 after one of the two sub-probes of a target pair failed,
\* next to a target pair without any sub-probe
C4_Witness ==
    /\ MeshReturned /\ mpc = "exited"
    /\ mesh_exit_code = <<1>>
    /\ \E key \in DOMAIN mesh_results :
          mesh_results[key].total_pairs = 2 /\ mesh_results[key].successful_pairs = 1
    /\ \E key \in DOMAIN mesh_results : mesh_results[key].total_pairs = 0

----------------------------------------------------------------------------
(* Claims on the initiator's result *)

\* the error texts of run_ib_client when the client command exited 0 but its
\* result file could not be read
RetrievalErrors ==
    {run_ib_client(run_kubectl_command("exit0", "stdout"), c)[3] :
        c \in {r \in CatReplies : ~r.ok}}

\* the client command of this future exited 0
InitiatorExitedOk(fut) ==
    /\ fut.state # "running"
    /\ ~fut.raised
    /\ fut.ret[1] \/ fut.ret[3] \in RetrievalErrors

\* C11: when the initiator call itself exits successfully, a failure to retrieve
\* its result file does not turn the probe into a failure: the result has
\* success = TRUE, with metrics absent or zero.
C11_RetrievalFailureKeepsSuccess ==
    \A k \in DOMAIN results :
        LET fut == client_futures[results[k].pair_idx + 1]
        IN  InitiatorExitedOk(fut) =>
                /\ results[k].success
                /\ (fut.ret[2] # "J" =>
                        results[k].bw_avg_gbps = 0 /\ results[k].bw_peak_gbps = <<>>)

----------------------------------------------------------------------------
(* Claims on one probe call *)

ClientCalled == call_args # <<>> /\ call_args.fn = "run_ib_client" /\ call_ret # <<>>

PingCalled == call_args # <<>> /\ call_args.fn = "run_ping_test" /\ call_ret # <<>>

\* every attempt of the examined run_ping_test call failed or timed out
AllAttemptsFailed == \A a \in DOMAIN call_args.calls : call_args.calls[a][1] # "exit0"

LastCall == call_args.calls[Len(call_args.calls)]

\* C12: no probe result has success = TRUE when its initiator's remote call timed
\* out or failed; a timeout is reported as a failure carrying the timeout text,
\* in the throughput and in the mesh execution.
C12_TimeoutNeverSuccess ==
    /\ ClientCalled =>
          /\ call_args.run[1] # "exit0" =>
                /\ ~call_ret[1].success
                /\ call_ret[1].error_msg = reply_of(call_args.run).out
          /\ call_args.run[1] = "timeout" => call_ret[1].error_msg = TIMED_OUT
    /\ PingCalled =>
          /\ call_ret[1].ping.success => ~AllAttemptsFailed
          /\ AllAttemptsFailed =>
                /\ ~call_ret[1].ping.success
                /\ call_ret[1].tally.successful_pairs = 0
                /\ Len(call_ret[1].tally.failed_tests) = 1
                /\ ~call_ret[1].tally.failed_tests[1].success
          /\ (AllAttemptsFailed /\ LastCall[1] = "timeout") =>
                /\ call_ret[1].ping.output = TIMED_OUT
                /\ call_ret[1].tally.failed_tests[1].error_msg = TIMED_OUT

\* a sub-probe whose attempts all timed out has been tallied
C12_Witness ==
    /\ PingCalled
    /\ call_args.retries = 1
    /\ \A a \in DOMAIN call_args.calls : call_args.calls[a][1] = "timeout"
    /\ call_ret[1].tally.failed_tests[1].error_msg = TIMED_OUT

----------------------------------------------------------------------------
(* Claims on the mesh tallies *)

\* run_pingmesh_tests has initialised its results dict
MeshProbing == mpc = "ping" \/ MeshReturned

MeshEntities == entities_of(mesh_config)

\* C13: for any configured list of n targets there is exactly one tally key per
\* unordered pair of targets: no key pairs a target with itself, no key has its
\* reverse present, there are n*(n-1)/2 keys, and the key set is the one fixed
\* before any sub-probe ran.
C13_OneKeyPerUnorderedPair ==
    MeshProbing =>
        /\ \A key \in DOMAIN mesh_results : key[1] # key[2]
        /\ \A key \in DOMAIN mesh_results : <<key[2], key[1]>> \notin DOMAIN mesh_results
        /\ 2 * Cardinality(DOMAIN mesh_results) = Len(MeshEntities) * (Len(MeshEntities) - 1)
        /\ DOMAIN mesh_results = Range(combinations(MeshEntities))

\* the sub-probes submitted for the target pair `key` between two given adapters
TasksBetween(key, fa, fb) ==
    {t \in DOMAIN ping_tasks : /\ ping_tasks[t].entity_a = key[1]
                               /\ ping_tasks[t].entity_b = key[2]
                               /\ ping_tasks[t].src_iface = fa
                               /\ ping_tasks[t].dst_iface = fb}

\* C14: for every target pair (a, b) the sub-probes are exactly the cross product
\* of a's and b's resolved adapters, each run once, from side a; when
\* run_pingmesh_tests returns, total_pairs of (a, b) is |resolved(a)| * |resolved(b)|.
C14_CrossProductPerPair ==
    MeshReturned =>
        /\ \A t \in DOMAIN ping_tasks :
              /\ <<ping_tasks[t].entity_a, ping_tasks[t].entity_b>> \in DOMAIN mesh_results
              /\ ping_tasks[t].src_iface \in entity_interface_ips[ping_tasks[t].entity_a]
              /\ ping_tasks[t].dst_iface \in entity_interface_ips[ping_tasks[t].entity_b]
        /\ \A key \in DOMAIN mesh_results :
              /\ \A fa \in entity_interface_ips[key[1]], fb \in entity_interface_ips[key[2]] :
                    Cardinality(TasksBetween(key, fa, fb)) = 1
              /\ mesh_results[key].total_pairs =
                    Cardinality(entity_interface_ips[key[1]])
                    * Cardinality(entity_interface_ips[key[2]])

\* the result map obtained by processing the completed sub-probes in submission
\* order, from sub-probe t on
RECURSIVE TallyInOrder(_, _)
TallyInOrder(rs, t) ==
    IF t > Len(ping_tasks) THEN rs
    ELSE TallyInOrder([rs EXCEPT ![<<ping_tasks[t].entity_a, ping_tasks[t].entity_b>>] =
                                     tally(@, ping_tasks[t], futures[t])], t + 1)

SubmissionOrderResults == TallyInOrder(init_results(combinations(MeshEntities)), 1)

\* two lists hold the same records, each as many times
SameRecords(s1, s2) ==
    /\ Len(s1) = Len(s2)
    /\ \A x \in Range(s1) \cup Range(s2) :
          Cardinality({i \in DOMAIN s1 : s1[i] = x})
              = Cardinality({i \in DOMAIN s2 : s2[i] = x})

\* C15 as stated: every completion order of the sub-probes yields the same final
\* result map, the one of the submission order.
C15_SameResultMapInAnyOrder ==
    MeshReturned => mesh_results = SubmissionOrderResults

\* C15: for fixed sub-probe outcomes every completion order yields, for every
\* target pair, the same attempted and succeeded counts and the same failure
\* records; only the order of the records in failed_tests follows the completions.
C15_SameCountsAndRecordsInAnyOrder ==
    MeshReturned =>
        LET expected == SubmissionOrderResults
        IN  \A key \in DOMAIN mesh_results :
                /\ mesh_results[key].total_pairs = expected[key].total_pairs
                /\ mesh_results[key].successful_pairs = expected[key].successful_pairs
                /\ SameRecords(mesh_results[key].failed_tests,
                               expected[key].failed_tests)

\* two sub-probes of one target pair failed and were collected against their
\* submission order
C15_Witness ==
    /\ MeshReturned
    /\ \E key \in DOMAIN mesh_results :
          /\ Len(mesh_results[key].failed_tests) = 2
          /\ mesh_results[key].failed_tests # SubmissionOrderResults[key].failed_tests

----------------------------------------------------------------------------
(* Claims on the mesh report *)

MeshReported == mpc = "exited" /\ mesh_report # <<>>

\* an entity of the target pair has no resolved adapter
ZeroAdapterPair(key) ==
    entity_interface_ips[key[1]] = {} \/ entity_interface_ips[key[2]] = {}

\* the matrix cells that show the target pair `key`
CellsOf(key) ==
    {ij \in DOMAIN mesh_report[1].matrix :
        /\ ij[1] # ij[2]
        /\ {MeshEntities[ij[1]], MeshEntities[ij[2]]} = {key[1], key[2]}}

\* C16: a target pair with zero resolved adapters on a side ends with the tally
\* {0 attempted, 0 succeeded}, is shown in the matrix as "N/A", is not counted
\* as disconnected, and does not make the run fail.
C16_ZeroAdapterPairIsNotApplicable ==
    MeshReported =>
        /\ \A key \in DOMAIN mesh_results :
              ZeroAdapterPair(key) =>
                  /\ mesh_results[key].total_pairs = 0
                  /\ mesh_results[key].successful_pairs = 0
                  /\ \A ij \in CellsOf(key) : mesh_report[1].matrix[ij].text = "N/A"
        /\ mesh_report[1].summary.disconnected =
              Cardinality({key \in DOMAIN mesh_results :
                              /\ ~ZeroAdapterPair(key)
                              /\ mesh_results[key].successful_pairs = 0})
        /\ (\A key \in DOMAIN mesh_results :
               ZeroAdapterPair(key)
               \/ mesh_results[key].successful_pairs = mesh_results[key].total_pairs)
           => mesh_exit_code = <<0>>

----------------------------------------------------------------------------
(* Claims on run_ping_test *)

\* C17: with retry budget r, run_ping_test makes at most r + 1 attempts, stops at
\* the first successful one, reports failure iff all r + 1 attempts failed, and
\* sleeps the backoff only between attempts, never after the last one; the
\* result depends on the replies of this sub-probe's own attempts only.
C17_RetryBudget ==
    PingCalled =>
        LET r == call_args.retries
            res == call_ret[1].ping
        IN  /\ res.attempts \in 1..(r + 1)
            /\ res.success =>
                  /\ call_args.calls[res.attempts][1] = "exit0"
                  /\ \A a \in 1..(res.attempts - 1) : call_args.calls[a][1] # "exit0"
                  /\ res.output = call_args.calls[res.attempts][2]
            /\ ~res.success <=> AllAttemptsFailed
            /\ ~res.success => res.attempts = r + 1
            /\ res.sleeps = res.attempts - 1

\* a sub-probe that used up a budget of two retries: three attempts, two sleeps
C17_Witness ==
    /\ PingCalled
    /\ call_args.retries = 2
    /\ AllAttemptsFailed
    /\ ~call_ret[1].ping.success
    /\ call_ret[1].ping.attempts = 3
    /\ call_ret[1].ping.sleeps = 2

----------------------------------------------------------------------------
(* Claims on the throughput configuration and report *)

\* the configuration names both a duration and an iteration count
BothModesGiven == "duration" \in DOMAIN config /\ "num_iters" \in DOMAIN config

\* C18: a throughput configuration with both duration and num_iters is rejected
\* by load_config: the process exits non-zero before any endpoint discovery,
\* port allocation, responder or initiator.
C18_BothModesRejected ==
    (pc # "idle" /\ BothModesGiven) =>
        /\ pc \in {"load_config", "exited"}
        /\ pc = "exited" => exit_code = <<1>>
        /\ \A i \in DOMAIN pairs : pairs[i] = TestPair(pairs[i].dst_pod)
        /\ server_procs = <<>>
        /\ client_futures = <<>>
        /\ results = <<>>
        /\ report = <<>>

\* the process has ended on a configuration naming both, with pairs to test
C18_Witness ==
    /\ pc = "exited"
    /\ BothModesGiven
    /\ pairs # <<>>
    /\ exit_code = <<1>>

\* the report has been written
Reported == report # <<>>

SuccessfulResults == {k \in DOMAIN results : results[k].success}

\* sum of bw_avg_gbps over the result positions `ks`
RECURSIVE AvgOver(_)
AvgOver(ks) ==
    IF ks = {} THEN 0
    ELSE LET k == CHOOSE x \in ks : TRUE
         IN results[k].bw_avg_gbps + AvgOver(ks \ {k})

\* C19: the aggregate average bandwidth of the report is the sum of bw_avg over
\* the successful results only, and the per-adapter average is that sum divided
\* by the number of successful results (0 in the JSON report when there is none;
\* the table prints neither figure then); a failed pair contributes nothing.
C19_AggregateOverSuccessfulOnly ==
    Reported =>
        LET summary == report[1].summary
            n == Cardinality(SuccessfulResults)
            total == AvgOver(SuccessfulResults)
        IN  /\ summary.successful = n
            /\ summary.total_avg_bw # <<>> => summary.total_avg_bw[1] = 100 * total
            /\ (summary.per_nic_avg_bw # <<>> /\ n > 0) =>
                  /\ 2 * n * summary.per_nic_avg_bw[1] <= 2 * 100 * total + n
                  /\ 2 * n * summary.per_nic_avg_bw[1] > 2 * 100 * total - n
            /\ (summary.per_nic_avg_bw # <<>> /\ n = 0) => summary.per_nic_avg_bw[1] = 0
            /\ report[1].format = "json" =>
                  summary.total_avg_bw # <<>> /\ summary.per_nic_avg_bw # <<>>
            /\ report[1].format = "table" =>
                  /\ (summary.total_avg_bw # <<>>) <=> n > 0
                  /\ (summary.per_nic_avg_bw # <<>>) <=> n > 0

\* a JSON report over one successful pair with bandwidth and one failed pair
C19_Witness ==
    /\ Reported
    /\ report[1].format = "json"
    /\ Len(results) = 2
    /\ \E k \in DOMAIN results : results[k].success /\ results[k].bw_avg_gbps > 0
    /\ \E k \in DOMAIN results : ~results[k].success
    /\ report[1].summary.per_nic_avg_bw = report[1].summary.total_avg_bw

----------------------------------------------------------------------------
(* Claims on both orchestrators *)

\* the positions of the submitted pairs, in ascending order
RECURSIVE Ascending(_)
Ascending(is) ==
    IF is = {} THEN <<>>
    ELSE LET m == CHOOSE x \in is : \A y \in is : x <= y
         IN <<m>> \o Ascending(is \ {m})

\* the result list fixed by the configuration and by the outcome of every
\* initiator, whatever the order the initiators completed in
OutcomeResults ==
    LET order == Ascending(DOMAIN client_futures)
    IN [k \in DOMAIN order |->
           collect_result(order[k] - 1, pairs[order[k]], client_futures[order[k]],
                          num_iters_given(config))]

\* C20: two runs over the same configuration with the same outcome for every
\* remote call produce the same summary (counts, aggregate and per-unit figures,
\* per-pair success flags, exit code), however the worker completions
\* interleave: the summary is the one computed from the outcomes alone.
C20_SummaryDeterminedByOutcomes ==
    /\ Reported =>
          report[1] = IF json_output
                      THEN output_json_results(OutcomeResults, config,
                                               num_iters_given(config))
                      ELSE print_results(OutcomeResults, num_iters_given(config))
    /\ ExitedAfterProbing =>
          exit_code = <<IF json_output /\ output_json_raises(config) THEN 1
                        ELSE IF has_failures(OutcomeResults) THEN 1 ELSE 0>>
    /\ MeshReported =>
          LET expected == SubmissionOrderResults
          IN  /\ mesh_report[1].matrix = print_results_matrix(MeshEntities, expected)
              /\ mesh_report[1].summary = print_summary(expected)
              /\ mesh_exit_code = <<IF mesh_has_failures(expected) THEN 1 ELSE 0>>

\* a mesh run has reported after collecting two failures of one target pair
\* against their submission order
C20_Witness ==
    /\ MeshReported
    /\ mesh_exit_code = <<1>>
    /\ \E key \in DOMAIN mesh_results :
          /\ Len(mesh_results[key].failed_tests) = 2
          /\ mesh_results[key].failed_tests # SubmissionOrderResults[key].failed_tests

\* C21: the overall success percentage printed by print_summary is
\* 100 * succeeded / attempted truncated (not rounded) at four decimals, so a run
\* with a failed sub-probe is never displayed as 100%.
C21_PercentageTruncated ==
    (MeshReported /\ mesh_report[1].summary.pct # <<>>) =>
        LET summary == mesh_report[1].summary
        IN  /\ summary.pct[1] = (1000000 * summary.total_success) \div summary.total_pairs
            /\ summary.total_success < summary.total_pairs => summary.pct[1] < 1000000

----------------------------------------------------------------------------
(* Claims on error containment *)

\* the initiators whose call failed, timed out or raised
FailedInitiators ==
    {i \in DOMAIN client_futures :
        /\ client_futures[i].state # "running"
        /\ client_futures[i].raised \/ ~client_futures[i].ret[1]}

\* the sub-probes of target pair `key` that failed, timed out or raised
FailedSubProbes(key) ==
    {t \in DOMAIN futures :
        /\ <<ping_tasks[t].entity_a, ping_tasks[t].entity_b>> = key
        /\ futures[t].state # "queued" /\ futures[t].state # "running"
        /\ ~SubProbeSucceeded(t)}

----------------------------------------------------------------------------
(* Claims on the order of the throughput phases *)

\* a responder or an initiator has been started
ProbeStarted == server_procs # <<>> \/ client_futures # <<>>

\* every pair holds the port assign_ports gives it
PortsComplete == \A i \in DOMAIN pairs : pairs[i].port = assign_ports(pairs)[i].port

\* C23: port allocation has run to completion for all pairs before any responder
\* or initiator is started, and no pair's port changes once the first responder
\* has been started.
C23_PortsAllocatedBeforeProbes ==
    /\ [](ProbeStarted => PortsComplete)
    /\ [][ProbeStarted =>
             \A i \in DOMAIN pairs : pairs'[i].port = pairs[i].port]_vars

\* the second responder of a pod is being started after the first, on the next port
C23_Witness ==
    /\ pc = "start_servers"
    /\ Len(server_procs) = 2
    /\ server_procs[1] = "running" /\ server_procs[2] = "running"
    /\ pairs[1].dst_pod = pairs[2].dst_pod
    /\ pairs[1].port = BASE_PORT /\ pairs[2].port = BASE_PORT + 1

\* discover_endpoints has attempted every pair
DiscoveryComplete ==
    \/ pc = "discover_loop" /\ loop_i > Len(pairs)
    \/ pc \in {"start_servers", "submit", "collect", "reap", "report", "exit"}
    \/ pc = "exited" /\ loop_i > Len(pairs)

\* C24: endpoint discovery completes for all pairs before port allocation
\* begins: a step that assigns a port is taken only when every pair's
\* resolution outcome is known.
C24_DiscoveryBeforeAllocation ==
    [][(\E i \in DOMAIN pairs : pairs'[i].port # pairs[i].port) => DiscoveryComplete]_vars

\* the step launches the initiators
InitiatorsLaunched == client_futures = <<>> /\ client_futures' # <<>>

\* C25: the responder of every resolved pair has been started, and the settle
\* interval has elapsed, before the first initiator is launched; no initiator is
\* launched for a pair whose responder was not started.
C25_RespondersBeforeInitiators ==
    /\ [](client_futures # <<>> =>
             /\ Len(server_procs) = Len(pairs)
             /\ \A i \in DOMAIN pairs : Resolved(i) => server_procs[i] # None
             /\ \A i \in DOMAIN client_futures : server_procs[i] # None)
    /\ [][InitiatorsLaunched => pc = "submit"]_vars

\* the initiator of the one resolved pair runs; the other pair was skipped
C25_Witness ==
    /\ pc = "collect"
    /\ Len(pairs) = 2
    /\ DOMAIN client_futures = {2}
    /\ server_procs = <<None, "running">>

----------------------------------------------------------------------------
(* Claims on the mesh worker pool *)

\* C26: at every moment of the probe phase at most max_workers sub-probes are
\* executing, over the whole run (one pool shared by all target pairs), and
\* every submitted sub-probe is eventually executed: the probe phase ends with
\* all of them collected.
C26_SharedBoundedPool ==
    /\ [](mpc = "ping" => Cardinality(RunningTasks) <= mesh_config.max_workers)
    /\ (mpc = "ping") ~> (mpc = "report" /\ \A t \in DOMAIN futures :
                                                futures[t].state = "collected")

\* the single worker runs a sub-probe of one target pair while a sub-probe of
\* another target pair waits in the queue
C26_Witness ==
    /\ mpc = "ping"
    /\ mesh_config.max_workers = 1
    /\ \E t \in DOMAIN futures : \E u \in DOMAIN futures :
          /\ futures[t].state = "running"
          /\ futures[u].state = "queued"
          /\ <<ping_tasks[t].entity_a, ping_tasks[t].entity_b>>
                # <<ping_tasks[u].entity_a, ping_tasks[u].entity_b>>

----------------------------------------------------------------------------
(* Claims on mesh discovery *)

\* the interface IPs have been collected and the process has ended
MeshExitedAfterDiscovery == mpc = "exited" /\ entity_interface_ips # <<>>

\* C27: a target without a resolved adapter contributes zero sub-probes and does
\* not abort the run: with at least one adapter resolved somewhere, every
\* sub-probe between the other targets is executed and reported; the run aborts
\* with a non-zero exit before probing only when no adapter resolved anywhere.
C27_UnresolvedTargetDoesNotAbort ==
    MeshExitedAfterDiscovery =>
        IF total_ips(entity_interface_ips) = 0
        THEN mesh_exit_code = <<1>> /\ futures = <<>> /\ mesh_report = <<>>
        ELSE /\ mesh_report # <<>>
             /\ \A t \in DOMAIN ping_tasks :
                   /\ entity_interface_ips[ping_tasks[t].entity_a] # {}
                   /\ entity_interface_ips[ping_tasks[t].entity_b] # {}
                   /\ futures[t].state = "collected"
             /\ \A key \in DOMAIN mesh_results :
                   \A fa \in entity_interface_ips[key[1]],
                      fb \in entity_interface_ips[key[2]] :
                       TasksBetween(key, fa, fb) # {}
             /\ mesh_report[1].summary.total_pairs = Len(ping_tasks)
             /\ mesh_report[1].summary.total_node_pairs
                   = Cardinality(DOMAIN mesh_results)

\* of three targets one has no adapter; the sub-probe between the other two ran
\* and the run ended with status 0
C27_Witness ==
    /\ MeshExitedAfterDiscovery
    /\ Len(MeshEntities) = 3
    /\ \E e \in DOMAIN entity_interface_ips : entity_interface_ips[e] = {}
    /\ Len(ping_tasks) = 1
    /\ mesh_report # <<>>
    /\ mesh_report[1].summary.total_success = 1
    /\ mesh_exit_code = <<0>>

----------------------------------------------------------------------------
(* Claims on throughput discovery *)

\* the lookup loop of discover_endpoints is running or has just ended
Discovering == pc = "discover_loop"

\* C28: a pair that fails to resolve does not stop the loop: each iteration moves
\* to the next pair whatever its outcome, a failed or not yet attempted pair has
\* an empty dst_ip, and the value returned is true iff every pair resolved.
C28_DiscoveryAttemptsEveryPair ==
    /\ [](Discovering =>
            /\ all_success <=> \A i \in 1..(loop_i - 1) : Resolved(i)
            /\ \A i \in loop_i..Len(pairs) : ~Resolved(i))
    /\ [][Discovering /\ loop_i <= Len(pairs)
            => Discovering' /\ loop_i' = loop_i + 1]_vars

\* the loop has ended: the first pair failed, the second one was still resolved
C28_Witness ==
    /\ Discovering
    /\ Len(pairs) = 2
    /\ loop_i > Len(pairs)
    /\ ~Resolved(1)
    /\ Resolved(2)
    /\ ~all_success

----------------------------------------------------------------------------
(* Claims on the mesh summary *)

\* the target pairs with at least one attempted sub-probe
AttemptedPairs == {k \in DOMAIN mesh_results : mesh_results[k].total_pairs > 0}

\* C29: print_summary puts every target pair with at least one attempted
\* sub-probe into exactly one of fully connected (succeeded = attempted),
\* partially connected (0 < succeeded < attempted) and disconnected
\* (succeeded = 0), and pairs with zero attempted into none: the three counts
\* add up to the number of pairs with attempted > 0.
C29_SummaryClassification ==
    MeshReported =>
        LET s == mesh_report[1].summary
            succ(k) == mesh_results[k].successful_pairs
            att(k) == mesh_results[k].total_pairs
        IN  /\ s.fully_connected
                 = Cardinality({k \in AttemptedPairs : succ(k) = att(k)})
            /\ s.partially_connected
                 = Cardinality({k \in AttemptedPairs : 0 < succ(k) /\ succ(k) < att(k)})
            /\ s.disconnected
                 = Cardinality({k \in AttemptedPairs : succ(k) = 0})
            /\ s.fully_connected + s.partially_connected + s.disconnected
                 = Cardinality(AttemptedPairs)

\* a report with a partially connected pair next to pairs without sub-probes
C29_Witness ==
    /\ MeshReported
    /\ mesh_report[1].summary.partially_connected = 1
    /\ AttemptedPairs # DOMAIN mesh_results
    /\ Cardinality(AttemptedPairs) = 1

----------------------------------------------------------------------------
(* Claims on the NUMA lookup *)

\* one iteration of the discovery loop has been made
DiscoverCalled == call_ret # <<>> /\ call_args.fn = "discover_endpoints"

\* the interface and IP lookups of the examined iteration all gave a value
LookupsResolved ==
    /\ call_args.tos => /\ call_args.src_iface.ok /\ call_args.src_iface.out # ""
                        /\ call_args.src_ip.ok /\ call_args.src_ip.out # ""
    /\ call_args.iface.ok /\ call_args.iface.out # ""
    /\ call_args.ip.ok /\ call_args.ip.out # ""

\* the node the NUMA lookup is to give for a call: 0 when the call fails, when
\* its output is no integer and when it is -1, else the number it reports
NumaExpected(c) ==
    IF c[1] # "exit0" THEN 0
    ELSE IF c[2] = "1" THEN 1
    ELSE 0

\* C30: the NUMA lookup never fails a resolution: it gives 0 when the remote
\* lookup fails, when the output is not an integer and for the sentinel -1, and
\* the reported node otherwise; a pair whose interface and IP resolved is
\* resolved whatever the NUMA lookups gave.
C30_NumaLookupNeverFails ==
    DiscoverCalled =>
        LET r == call_ret[1]
        IN  /\ r.ok <=> LookupsResolved
            /\ r.ok => /\ r.pair.dst_ip = call_args.ip.out
                       /\ r.pair.src_numa = NumaExpected(call_args.src_numa)
                       /\ r.pair.dst_numa = NumaExpected(call_args.dst_numa)

\* a resolved pair whose source NUMA lookup timed out and whose destination
\* reported the sentinel
C30_Witness ==
    /\ DiscoverCalled
    /\ call_args.src_numa = <<"timeout", "">>
    /\ call_args.dst_numa = <<"exit0", "-1">>
    /\ call_ret[1].ok
    /\ call_ret[1].pair.dst_ip = "10.0.0.1"
    /\ call_ret[1].pair.src_numa = 0
    /\ call_ret[1].pair.dst_numa = 0

----------------------------------------------------------------------------
(* Claims on the mesh tallies *)

\* the tallies exist: run_pingmesh_tests has initialised them
TalliesExist == mpc \in {"ping", "report", "exited"}

\* the tally of every target pair is consistent
TalliesConsistent ==
    \A key \in DOMAIN mesh_results :
        LET r == mesh_results[key]
        IN  /\ r.successful_pairs + Len(r.failed_tests) = r.total_pairs
            /\ 0 <= r.successful_pairs
            /\ r.successful_pairs <= r.total_pairs

\* the tally `new` is `old` after one more processed sub-probe: one more attempt,
\* and either one more success or one more failure record after the old ones
OneMoreSubProbe(old, new) ==
    /\ new.total_pairs = old.total_pairs + 1
    /\ \/ /\ new.successful_pairs = old.successful_pairs + 1
          /\ new.failed_tests = old.failed_tests
       \/ /\ new.successful_pairs = old.successful_pairs
          /\ Len(new.failed_tests) = Len(old.failed_tests) + 1
          /\ SubSeq(new.failed_tests, 1, Len(old.failed_tests)) = old.failed_tests

\* C31: after each processed sub-probe outcome every target pair has
\* successful_pairs + len(failed_tests) = total_pairs and
\* 0 <= successful_pairs <= total_pairs; the tallies change only by one processed
\* sub-probe at a time, which adds exactly one to the counters of its own pair,
\* and are never reset or overwritten.
C31_TallyInvariant ==
    /\ [](TalliesExist => TalliesConsistent)
    /\ [][TalliesExist /\ mesh_results' # mesh_results =>
            /\ DOMAIN mesh_results' = DOMAIN mesh_results
            /\ \E key \in DOMAIN mesh_results :
                  /\ OneMoreSubProbe(mesh_results[key], mesh_results'[key])
                  /\ \A other \in DOMAIN mesh_results \ {key} :
                        mesh_results'[other] = mesh_results[other]]_vars

\* a target pair after two processed sub-probes, one succeeded and one raised,
\* while the as_completed loop is still running
C31_Witness ==
    /\ mpc = "ping"
    /\ \E key \in DOMAIN mesh_results :
          /\ mesh_results[key].total_pairs = 2
          /\ mesh_results[key].successful_pairs = 1
          /\ Len(mesh_results[key].failed_tests) = 1
    /\ \E t \in DOMAIN futures : futures[t].state = "collected" /\ futures[t].raised

----------------------------------------------------------------------------
(* Claims on termination *)

\* the phases of the throughput run and of the mesh run, before the exit
ThroughputPhases ==
    {"load_config", "discover", "discover_loop", "start_servers", "submit",
     "collect", "reap", "report", "exit"}

MeshPhases == {"load_config", "collect_ips", "check_ips", "ping", "report"}

\* the program that was started has ended
Terminated == pc = "exited" \/ mpc = "exited"

\* the initiator of pair i, or sub-probe t, is submitted and not yet collected
ClientPending(i) ==
    i \in DOMAIN client_futures /\ client_futures[i].state # "collected"

SubProbePending(t) == t \in DOMAIN futures /\ futures[t].state # "collected"

\* C32: provided every remote call returns or hits its own timeout, a run always
\* terminates: every phase (discovery, responder start, settle wait, initiators,
\* responder reaping, reporting) is eventually left, and no submitted initiator
\* or sub-probe stays uncollected forever in either worker pool.
C32_RunTerminates ==
    /\ <>Terminated
    /\ \A p \in ThroughputPhases : (pc = p) ~> (pc # p)
    /\ \A p \in MeshPhases : (mpc = p) ~> (mpc # p)
    /\ \A i \in 1..MaxPairs : ClientPending(i) ~> ~ClientPending(i)
    /\ \A t \in 1..MaxTasks : SubProbePending(t) ~> ~SubProbePending(t)

\* a throughput run has ended after all its phases: two initiators were collected,
\* one of them failed, and a responder was killed at its wait timeout
C32_Witness ==
    /\ pc = "exited"
    /\ Len(results) = 2
    /\ \E k \in DOMAIN results : ~results[k].success
    /\ \E i \in DOMAIN server_procs : server_procs[i] = "killed"
    /\ report # <<>>
    /\ exit_code = <<1>>

----------------------------------------------------------------------------
(* Claims on the error text of failed results *)

\* C33: every throughput result with success = FALSE carries a non-empty error
\* message, also when the initiator succeeded and its result file was read
\* back empty.
C33_FailedResultHasErrorMessage ==
    \A k \in DOMAIN results : ~results[k].success => results[k].error_msg # ""

----------------------------------------------------------------------------
(* Claims on the run mode *)

\* load_config has accepted the configuration and the run goes on with it
ConfigAccepted == pc \notin {"idle", "load_config"} /\ server_procs # <<>>

\* C34: for every accepted configuration (num_iters = 0 included) the probe
\* command, the timeout choice, the capture of the peak bandwidth and the
\* test_mode of the JSON report treat the run as iterations mode all together,
\* or as duration mode all together.
C34_RunModeConsistent ==
    ConfigAccepted =>
        LET iterations == test_param(config)[1] = "-n"
        IN  /\ (client_timeout(config) = ITER_TIMEOUT) <=> iterations
            /\ include_peak_of(config) <=> iterations
            /\ json_output => ((json_test_mode(config) = "iterations") <=> iterations)

====
